---- MODULE Spec2Model ----
(***************************************************************************)
(* A model of the uemu RISC-V emulator core: the hart (CSR file, trap      *)
(* dispatch, interrupt check), the privileged and atomic executors, the    *)
(* MMU reservation, the bus with the CLINT and SiFive-test devices, and    *)
(* the execution engine's worker and driver threads.                       *)
(*                                                                         *)
(* A 64-bit register value (reg_t) is modelled as the set of the positions *)
(* of its one bits, a subset of 0..63: x & y is an intersection, x | y a   *)
(* union, x & ~y a set difference.  The pc and every address are such      *)
(* values too; NatOf and BitsOf convert small values from and to naturals. *)
(***************************************************************************)
EXTENDS Integers, Sequences, FiniteSets, TLC

VARIABLES hart, mmu, dram, clint, engine, driver, worker, log, bus, plic

vars == <<hart, mmu, dram, clint, engine, driver, worker, log, bus, plic>>

\* ------------------------------------------------------------------ bits

\* The positions of the one bits of the natural n, counted from position i.
RECURSIVE BitsFrom(_, _)
BitsFrom(n, i) ==
    IF n = 0 THEN {}
    ELSE (IF n % 2 = 1 THEN {i} ELSE {}) \cup BitsFrom(n \div 2, i + 1)

\* The 64-bit value of the natural n (n < 2^31).
BitsOf(n) == BitsFrom(n, 0)

\* The natural whose one bits are at the positions in s (all below 31).
RECURSIVE NatOf(_)
NatOf(s) == IF s = {} THEN 0
            ELSE LET b == CHOOSE x \in s : TRUE IN (2 ^ b) + NatOf(s \ {b})

\* The element of a singleton set.  The({e(x) : x \in {v}}) is e(v) with v
\* worked out once, however often e uses it: the idiom for a local variable
\* that is assigned once and read several times.
The(S) == CHOOSE y \in S : TRUE

\* x << k and x >> k on 64-bit values.
Shl(s, k) == {b + k : b \in {x \in s : x + k <= 63}}
Shr(s, k) == {b - k : b \in {x \in s : x >= k}}

\* 64-bit arithmetic is done on three limbs: bits 0-21, 22-43 and 44-63.
Limb(s, k) == NatOf({x - 22 * k : x \in {y \in s : y >= 22 * k /\ y < 22 * (k + 1)}})

FromLimbs(l0, l1, l2) == BitsFrom(l0, 0) \cup BitsFrom(l1, 22) \cup BitsFrom(l2, 44)

\* a + b modulo 2^64
Add64(a, b) ==
    LET s0 == Limb(a, 0) + Limb(b, 0)
        s1 == Limb(a, 1) + Limb(b, 1) + (s0 \div 4194304)
        s2 == Limb(a, 2) + Limb(b, 2) + (s1 \div 4194304)
    IN FromLimbs(s0 % 4194304, s1 % 4194304, s2 % 1048576)

\* a - b modulo 2^64
Sub64(a, b) ==
    LET d0 == Limb(a, 0) - Limb(b, 0)
        d1 == Limb(a, 1) - Limb(b, 1) - (IF d0 < 0 THEN 1 ELSE 0)
        d2 == Limb(a, 2) - Limb(b, 2) - (IF d1 < 0 THEN 1 ELSE 0)
    IN FromLimbs((d0 + 4194304) % 4194304, (d1 + 4194304) % 4194304,
                 (d2 + 1048576) % 1048576)

\* a >= b as unsigned 64-bit values: the highest bit they differ in is a's.
Geq64(a, b) ==
    LET d == (a \ b) \cup (b \ a)
    IN IF d = {} THEN TRUE ELSE (CHOOSE x \in d : \A y \in d : y <= x) \in a

\* ------------------------------------------------------- privilege, causes

PRIV_U == 0
PRIV_S == 1
PRIV_M == 3

\* enum class TrapCause: the exception codes, and the interrupt codes OR'd
\* with 1 << 63.
InstructionAddressMisaligned == BitsOf(0)
InstructionAccessFault == BitsOf(1)
IllegalInstruction == BitsOf(2)
Breakpoint == BitsOf(3)
LoadAccessFault == BitsOf(5)
StoreAMOAccessFault == BitsOf(7)
InstructionPageFault == BitsOf(12)
LoadPageFault == BitsOf(13)
StoreAMOPageFault == BitsOf(15)
EnvironmentCallFromU == BitsOf(8)
EnvironmentCallFromS == BitsOf(9)
EnvironmentCallFromM == BitsOf(11)
SupervisorSoftwareInterrupt == {63} \cup BitsOf(1)
MachineSoftwareInterrupt == {63} \cup BitsOf(3)
SupervisorTimerInterrupt == {63} \cup BitsOf(5)
MachineTimerInterrupt == {63} \cup BitsOf(7)
SupervisorExternalInterrupt == {63} \cup BitsOf(9)
MachineExternalInterrupt == {63} \cup BitsOf(11)

\* TrapCause::None is std::numeric_limits<reg_t>::max().
None == 0..63

\* class Trap: the pc of the faulting instruction, the cause and tval.
Trap(pc, cause, tval) == [pc |-> pc, cause |-> cause, tval |-> tval]

\* The value that stands for "no Trap was thrown".
NoTrap == Trap({}, None, {})

\* ------------------------------------------------------------ CSR fields

\* MSTATUS::Field
MSTATUS_SIE == {1}
MSTATUS_MIE == {3}
MSTATUS_SPIE == {5}
MSTATUS_MPIE == {7}
MSTATUS_SPP == {8}
MSTATUS_MPP == {11, 12}
MSTATUS_FS == {13, 14}
MSTATUS_MPRV == {17}
MSTATUS_TSR == {22}
MSTATUS_SD == {63}
MPP_SHIFT == 11
SPP_SHIFT == 8

\* MSTATUS::MSTATUS: the masks the constructor sets.
\* (SUM, MXR, TVM and TW are bits 18 to 21, UXL bits 32-33, SXL bits 34-35.)
MSTATUS_read_mask ==
    MSTATUS_SIE \cup MSTATUS_MIE \cup MSTATUS_SPIE \cup MSTATUS_MPIE \cup
    MSTATUS_SPP \cup MSTATUS_MPP \cup MSTATUS_FS \cup MSTATUS_MPRV \cup
    {18, 19, 20, 21} \cup MSTATUS_TSR \cup {32, 33} \cup {34, 35} \cup MSTATUS_SD

MSTATUS_write_mask ==
    MSTATUS_MIE \cup MSTATUS_MPIE \cup MSTATUS_MPRV \cup MSTATUS_MPP \cup
    MSTATUS_FS \cup MSTATUS_SIE \cup MSTATUS_SPIE \cup MSTATUS_SPP \cup
    {18, 19, 20, 21} \cup MSTATUS_TSR

\* SSTATUS::read_mask_ and SSTATUS::write_mask_
SSTATUS_read_mask ==
    MSTATUS_SIE \cup MSTATUS_SPIE \cup MSTATUS_SPP \cup MSTATUS_FS \cup
    {18, 19} \cup {32, 33} \cup MSTATUS_SD

SSTATUS_write_mask ==
    MSTATUS_SIE \cup MSTATUS_SPIE \cup MSTATUS_SPP \cup {18, 19}

\* MIP::Field (MIE::Field has the same positions)
MIP_SSIP == {1}
MIP_MSIP == {3}
MIP_STIP == {5}
MIP_MTIP == {7}
MIP_SEIP == {9}
MIP_MEIP == {11}

\* MIP::read_mask_, which is also MIE::mask_
MIP_read_mask ==
    MIP_SSIP \cup MIP_MSIP \cup MIP_STIP \cup MIP_MTIP \cup MIP_SEIP \cup MIP_MEIP

\* MENVCFG::Field::STCE and MENVCFG::mask_
MENVCFG_STCE == {63}
MENVCFG_mask == {0, 61, 63}

\* CSR addresses
MSTATUS_ADDRESS == 768
MEDELEG_ADDRESS == 770
MIDELEG_ADDRESS == 771
MIE_ADDRESS == 772
MTVEC_ADDRESS == 773
MEPC_ADDRESS == 833
MCAUSE_ADDRESS == 834
MTVAL_ADDRESS == 835
MIP_ADDRESS == 836
SSTATUS_ADDRESS == 256
SIE_ADDRESS == 260
STVEC_ADDRESS == 261
SEPC_ADDRESS == 321
SCAUSE_ADDRESS == 322
STVAL_ADDRESS == 323
SIP_ADDRESS == 324
MCYCLE_ADDRESS == 2816
MCOUNTINHIBIT_ADDRESS == 800
FFLAGS_ADDRESS == 1
FRM_ADDRESS == 2
FCSR_ADDRESS == 3
CYCLE_ADDRESS == 3072
MCOUNTEREN_ADDRESS == 774
SCOUNTEREN_ADDRESS == 262
MINSTRET_ADDRESS == 2818
\* An address no add_csr call fills: an UnimplementedCSR slot.
UNIMPLEMENTED_ADDRESS == 2047

\* ------------------------------------------------------------- CSR file

\* The privilege each CSR class passes to CSR::CSR as min_priv.
csr_min_priv(a) ==
    IF a \in {SSTATUS_ADDRESS, SIE_ADDRESS, STVEC_ADDRESS, SEPC_ADDRESS,
              SCAUSE_ADDRESS, STVAL_ADDRESS, SIP_ADDRESS, SCOUNTEREN_ADDRESS}
    THEN PRIV_S
    ELSE IF a \in {CYCLE_ADDRESS, FFLAGS_ADDRESS, FRM_ADDRESS, FCSR_ADDRESS}
    THEN PRIV_U ELSE PRIV_M

\* CAUSECSR::is_valid_cause_value
is_valid_cause_value(a, v) ==
    \/ v \in {BitsOf(0), InstructionAccessFault, IllegalInstruction, Breakpoint,
              BitsOf(4), LoadAccessFault, BitsOf(6), StoreAMOAccessFault,
              EnvironmentCallFromU, EnvironmentCallFromS, BitsOf(12),
              BitsOf(13), BitsOf(15), SupervisorSoftwareInterrupt,
              SupervisorTimerInterrupt, SupervisorExternalInterrupt}
    \/ /\ v \in {EnvironmentCallFromM, MachineSoftwareInterrupt,
                 MachineTimerInterrupt, MachineExternalInterrupt}
       /\ csr_min_priv(a) = PRIV_M

\* MSTATUS::read_unchecked
MSTATUS_read(h) == h.csrs.mstatus \cap MSTATUS_read_mask

\* MSTATUS::write_unchecked: the masked merge, then SD recomputed from FS.
MSTATUS_write(h, v) ==
    LET merged == (h.csrs.mstatus \ MSTATUS_write_mask) \cup (v \cap MSTATUS_write_mask)
        withSD == IF MSTATUS_FS \subseteq merged
                  THEN merged \cup MSTATUS_SD ELSE merged \ MSTATUS_SD
    IN [h EXCEPT !.csrs.mstatus = withSD]

\* MIP::read_unchecked
MIP_read(h) == h.csrs.mip \cap MIP_read_mask

\* CSR::read_unchecked, as overridden by the class at address a.
csr_read_unchecked(h, a) ==
    CASE a = MSTATUS_ADDRESS -> MSTATUS_read(h)
      [] a = SSTATUS_ADDRESS -> MSTATUS_read(h) \cap SSTATUS_read_mask
      [] a = MEDELEG_ADDRESS -> h.csrs.medeleg \ {11, 16}
      [] a = MIDELEG_ADDRESS -> h.csrs.mideleg
      [] a = MIP_ADDRESS -> MIP_read(h)
      [] a = MIE_ADDRESS -> h.csrs.mie \cap MIP_read_mask
      [] a = SIP_ADDRESS ->
            (MIP_read(h) \cap (MIP_SSIP \cup MIP_STIP \cup MIP_SEIP)) \cap h.csrs.mideleg
      [] a = SIE_ADDRESS ->
            (h.csrs.mie \cap MIP_read_mask) \cap (MIP_SSIP \cup MIP_STIP \cup MIP_SEIP)
      [] a = MTVEC_ADDRESS -> h.csrs.mtvec
      [] a = STVEC_ADDRESS -> h.csrs.stvec
      [] a = MEPC_ADDRESS -> h.csrs.mepc \ {0}
      [] a = SEPC_ADDRESS -> h.csrs.sepc \ {0}
      [] a = MCAUSE_ADDRESS -> h.csrs.mcause
      [] a = SCAUSE_ADDRESS -> h.csrs.scause
      [] a = MTVAL_ADDRESS -> h.csrs.mtval
      [] a = STVAL_ADDRESS -> h.csrs.stval
      [] a = MCYCLE_ADDRESS -> BitsOf(h.csrs.mcycle)
      [] a = MCOUNTINHIBIT_ADDRESS -> h.csrs.mcountinhibit \ {1}
      [] a = FFLAGS_ADDRESS -> h.csrs.fflags \cap (0..4)
      [] a = FRM_ADDRESS -> h.csrs.frm \cap (0..2)
      [] a = FCSR_ADDRESS -> (h.csrs.fflags \cap (0..4)) \cup Shl(h.csrs.frm \cap (0..2), 5)
      [] a = CYCLE_ADDRESS -> BitsOf(h.csrs.mcycle)
      [] a = MCOUNTEREN_ADDRESS -> h.csrs.mcounteren
      [] a = SCOUNTEREN_ADDRESS -> h.csrs.scounteren
      [] a = MINSTRET_ADDRESS -> BitsOf(h.csrs.minstret)
      [] OTHER -> {}

\* MIP::write_unchecked: software may write SSIP and SEIP, and STIP while
\* menvcfg.STCE is clear.
MIP_write(h, v) ==
    LET write_mask == (MIP_SSIP \cup MIP_SEIP) \cup
                      (IF (h.csrs.menvcfg \cap MENVCFG_mask) \cap MENVCFG_STCE = {}
                       THEN MIP_STIP ELSE {})
    IN [h EXCEPT !.csrs.mip = (h.csrs.mip \ write_mask) \cup (v \cap write_mask)]

\* A CSR write after which the privilege follows the MPP field written to
\* mstatus.
csr_write_unchecked_priv_follows_mpp(h, a, v) ==
    IF a = MSTATUS_ADDRESS
    THEN [MSTATUS_write(h, v) EXCEPT !.priv = NatOf(Shr(v \cap MSTATUS_MPP, MPP_SHIFT))]
    ELSE h

\* CSR::write_unchecked, as overridden by the class at address a.
csr_write_unchecked(h, a, v) ==
    CASE a = MSTATUS_ADDRESS -> MSTATUS_write(h, v)
      [] a = SSTATUS_ADDRESS ->
            MSTATUS_write(h, (MSTATUS_read(h) \ SSTATUS_write_mask) \cup
                             (v \cap SSTATUS_write_mask))
      [] a = MEDELEG_ADDRESS -> [h EXCEPT !.csrs.medeleg = v \ {11, 16}]
      [] a = MIDELEG_ADDRESS -> [h EXCEPT !.csrs.mideleg = v]
      [] a = MIP_ADDRESS -> MIP_write(h, v)
      [] a = MIE_ADDRESS -> [h EXCEPT !.csrs.mie = v \cap MIP_read_mask]
      [] a = SIP_ADDRESS ->
            MIP_write(h, (v \cap (MIP_SSIP \cup MIP_STIP \cup MIP_SEIP)) \cap h.csrs.mideleg)
      [] a = SIE_ADDRESS ->
            [h EXCEPT !.csrs.mie =
                (v \cap (MIP_SSIP \cup MIP_STIP \cup MIP_SEIP)) \cap MIP_read_mask]
      [] a = MTVEC_ADDRESS -> [h EXCEPT !.csrs.mtvec = v \ {1}]
      [] a = STVEC_ADDRESS -> [h EXCEPT !.csrs.stvec = v \ {1}]
      [] a = MEPC_ADDRESS -> [h EXCEPT !.csrs.mepc = (h.csrs.mepc \cap {0}) \cup (v \ {0})]
      [] a = SEPC_ADDRESS -> [h EXCEPT !.csrs.sepc = (h.csrs.sepc \cap {0}) \cup (v \ {0})]
      [] a = MCAUSE_ADDRESS ->
            IF is_valid_cause_value(a, v) THEN [h EXCEPT !.csrs.mcause = v] ELSE h
      [] a = SCAUSE_ADDRESS ->
            IF is_valid_cause_value(a, v) THEN [h EXCEPT !.csrs.scause = v] ELSE h
      [] a = MTVAL_ADDRESS -> [h EXCEPT !.csrs.mtval = v]
      [] a = STVAL_ADDRESS -> [h EXCEPT !.csrs.stval = v]
      [] a = MCYCLE_ADDRESS -> [h EXCEPT !.csrs.mcycle = NatOf(v)]
      [] a = MCOUNTINHIBIT_ADDRESS -> [h EXCEPT !.csrs.mcountinhibit = v \ {1}]
      [] a = FFLAGS_ADDRESS -> [h EXCEPT !.csrs.fflags = v \cap (0..4)]
      [] a = FRM_ADDRESS -> [h EXCEPT !.csrs.frm = v \cap (0..2)]
      [] a = FCSR_ADDRESS -> [h EXCEPT !.csrs.fflags = v \cap (0..4),
                                       !.csrs.frm = {b - 5 : b \in v \cap (5..7)}]
      [] a = MCOUNTEREN_ADDRESS -> [h EXCEPT !.csrs.mcounteren = v]
      [] a = SCOUNTEREN_ADDRESS -> [h EXCEPT !.csrs.scounteren = v]
      [] a = MINSTRET_ADDRESS -> [h EXCEPT !.csrs.minstret = NatOf(v)]
      [] OTHER -> h

\* write_checked setting increase_suppressed_ for a write to any counter.
csr_write_checked_suppresses_any_counter(h, a, v) ==
    IF a \in {MINSTRET_ADDRESS, MCYCLE_ADDRESS}
    THEN [csr_write_unchecked(h, a, v) EXCEPT !.csrs.increase_suppressed_ = TRUE]
    ELSE csr_write_unchecked(h, a, v)

\* CSR::write_checked once check_permissions has passed, as overridden by
\* MINSTRET: the write, then increase_suppressed_ = true.
csr_write_checked(h, a, v) ==
    IF a = MINSTRET_ADDRESS
    THEN [csr_write_unchecked(h, a, v) EXCEPT !.csrs.increase_suppressed_ = TRUE]
    ELSE csr_write_unchecked(h, a, v)

\* UserCounterCSR::check_permissions for the counter at address a.
UserCounterCSR_check_permissions(h, a) ==
    IF h.priv = PRIV_M THEN TRUE
    ELSE IF (a - CYCLE_ADDRESS) \notin h.csrs.mcounteren THEN FALSE
    ELSE IF h.priv = PRIV_U /\ (a - CYCLE_ADDRESS) \notin h.csrs.scounteren THEN FALSE
    ELSE TRUE

\* CSR::check_permissions, overridden for cycle; an UnimplementedCSR always
\* refuses the checked path.
check_permissions(h, a) ==
    IF a = CYCLE_ADDRESS
    THEN UserCounterCSR_check_permissions(h, a)
    ELSE /\ a # UNIMPLEMENTED_ADDRESS
         /\ h.priv >= csr_min_priv(a)

\* RegisterFile::read and RegisterFile::write: x0 is hardwired to zero.
\* gprs_ is held for the indices 0 to 4.
R_read(h, idx) == IF idx # 0 THEN h.gprs[idx] ELSE {}

\* RegisterFile::write without the test of idx.
R_write_any_index(h, idx, value) == [h EXCEPT !.gprs[idx] = value]

R_write(h, idx, value) == IF idx # 0 THEN [h EXCEPT !.gprs[idx] = value] ELSE h

\* --------------------------------------------------------------- the hart

\* Hart::handle_trap, the branch target_priv == S.
handle_trap_to_s(h, trap) ==
    The({The({The({
        LET sstatus == csr_read_unchecked(h3, SSTATUS_ADDRESS)
            s1 == IF sstatus \cap MSTATUS_SIE # {}
                  THEN sstatus \cup MSTATUS_SPIE ELSE sstatus \ MSTATUS_SPIE
            s2 == IF h.priv >= PRIV_S
                  THEN s1 \cup MSTATUS_SPP ELSE s1 \ MSTATUS_SPP
            s3 == s2 \ MSTATUS_SIE
            stvec == csr_read_unchecked(h3, STVEC_ADDRESS)
            vector_base == stvec \ {0, 1}
            vector_mode == NatOf(stvec \cap {0, 1})
        IN [csr_write_unchecked(h3, SSTATUS_ADDRESS, s3) EXCEPT
              !.pc = IF 63 \in trap.cause /\ vector_mode = 1
                     THEN Add64(vector_base, Shl(trap.cause \ {63}, 2))
                     ELSE vector_base,
              !.priv = PRIV_S]
        : h3 \in {csr_write_unchecked(h2, STVAL_ADDRESS, trap.tval)}})
        : h2 \in {csr_write_unchecked(h1, SCAUSE_ADDRESS, trap.cause)}})
        : h1 \in {csr_write_unchecked(h, SEPC_ADDRESS, trap.pc)}})

\* Hart::handle_trap, the branch target_priv == M.
handle_trap_to_m(h, trap) ==
    The({The({The({
        LET mstatus == csr_read_unchecked(h3, MSTATUS_ADDRESS)
            m1 == IF mstatus \cap MSTATUS_MIE # {}
                  THEN mstatus \cup MSTATUS_MPIE ELSE mstatus \ MSTATUS_MPIE
            m2 == (m1 \ MSTATUS_MPP) \cup Shl(BitsOf(h.priv), MPP_SHIFT)
            m3 == m2 \ MSTATUS_MIE
            mtvec == csr_read_unchecked(h3, MTVEC_ADDRESS)
            vector_base == mtvec \ {0, 1}
            vector_mode == NatOf(mtvec \cap {0, 1})
        IN [csr_write_unchecked(h3, MSTATUS_ADDRESS, m3) EXCEPT
              !.pc = IF 63 \in trap.cause /\ vector_mode = 1
                     THEN Add64(vector_base, Shl(trap.cause \ {63}, 2))
                     ELSE vector_base,
              !.priv = PRIV_M]
        : h3 \in {csr_write_unchecked(h2, MTVAL_ADDRESS, trap.tval)}})
        : h2 \in {csr_write_unchecked(h1, MCAUSE_ADDRESS, trap.cause)}})
        : h1 \in {csr_write_unchecked(h, MEPC_ADDRESS, trap.pc)}})

\* Hart::handle_trap deciding the target from the delegation bit alone.
handle_trap_any_priv(h, trap) ==
    LET code == NatOf(trap.cause \ {63})
        deleg_mask == IF 63 \in trap.cause THEN h.csrs.mideleg ELSE h.csrs.medeleg
    IN IF code \in deleg_mask
       THEN [h EXCEPT !.priv = PRIV_S, !.pc = h.csrs.stvec \ {0, 1},
                      !.csrs.sepc = trap.pc, !.csrs.scause = trap.cause]
       ELSE [h EXCEPT !.priv = PRIV_M, !.pc = h.csrs.mtvec \ {0, 1},
                      !.csrs.mepc = trap.pc, !.csrs.mcause = trap.cause]

\* Hart::handle_trap: the choice of the target privilege.
handle_trap(h, trap) ==
    LET cause_val == trap.cause
        is_interrupt == 63 \in cause_val
        cause_code == NatOf(cause_val \ {63})
        deleg_mask == IF is_interrupt
                      THEN csr_read_unchecked(h, MIDELEG_ADDRESS)
                      ELSE csr_read_unchecked(h, MEDELEG_ADDRESS)
        target_priv == IF h.priv <= PRIV_S /\ cause_code \in deleg_mask
                       THEN PRIV_S ELSE PRIV_M
    IN IF target_priv = PRIV_S
       THEN handle_trap_to_s(h, trap)
       ELSE handle_trap_to_m(h, trap)

\* Hart::check_interrupts with the S-pending set examined before the
\* M-pending set.
check_interrupts_s_first(h) ==
    LET mip == csr_read_unchecked(h, MIP_ADDRESS)
        mie == csr_read_unchecked(h, MIE_ADDRESS)
        mstatus == csr_read_unchecked(h, MSTATUS_ADDRESS)
        mideleg == csr_read_unchecked(h, MIDELEG_ADDRESS)
        pending == mip \cap mie
        m_pending == pending \ mideleg
        s_pending == pending \cap mideleg
        m_enabled == \/ h.priv < PRIV_M
                     \/ h.priv = PRIV_M /\ mstatus \cap MSTATUS_MIE # {}
        s_enabled == \/ h.priv < PRIV_S
                     \/ h.priv = PRIV_S /\ mstatus \cap MSTATUS_SIE # {}
        s_cause == IF s_enabled /\ s_pending # {}
                   THEN IF s_pending \cap MIP_SEIP # {} THEN SupervisorExternalInterrupt
                        ELSE IF s_pending \cap MIP_SSIP # {} THEN SupervisorSoftwareInterrupt
                        ELSE IF s_pending \cap MIP_STIP # {} THEN SupervisorTimerInterrupt
                        ELSE None
                   ELSE None
        selected_cause ==
            IF s_cause = None /\ m_enabled /\ m_pending # {}
            THEN IF m_pending \cap MIP_MEIP # {} THEN MachineExternalInterrupt
                 ELSE IF m_pending \cap MIP_MSIP # {} THEN MachineSoftwareInterrupt
                 ELSE IF m_pending \cap MIP_MTIP # {} THEN MachineTimerInterrupt
                 ELSE None
            ELSE s_cause
    IN IF pending = {} \/ selected_cause = None
       THEN NoTrap
       ELSE Trap(h.pc, selected_cause, {})

\* Hart::check_interrupts: the Trap it throws, or NoTrap.
check_interrupts(h) ==
    LET mip == csr_read_unchecked(h, MIP_ADDRESS)
        mie == csr_read_unchecked(h, MIE_ADDRESS)
        mstatus == csr_read_unchecked(h, MSTATUS_ADDRESS)
        mideleg == csr_read_unchecked(h, MIDELEG_ADDRESS)
        pending == mip \cap mie
        m_pending == pending \ mideleg
        s_pending == pending \cap mideleg
        m_enabled == \/ h.priv < PRIV_M
                     \/ h.priv = PRIV_M /\ mstatus \cap MSTATUS_MIE # {}
        s_enabled == \/ h.priv < PRIV_S
                     \/ h.priv = PRIV_S /\ mstatus \cap MSTATUS_SIE # {}
        m_cause == IF m_enabled /\ m_pending # {}
                   THEN IF m_pending \cap MIP_MEIP # {} THEN MachineExternalInterrupt
                        ELSE IF m_pending \cap MIP_MSIP # {} THEN MachineSoftwareInterrupt
                        ELSE IF m_pending \cap MIP_MTIP # {} THEN MachineTimerInterrupt
                        ELSE None
                   ELSE None
        selected_cause ==
            IF m_cause = None /\ s_enabled /\ s_pending # {}
            THEN IF s_pending \cap MIP_SEIP # {} THEN SupervisorExternalInterrupt
                 ELSE IF s_pending \cap MIP_SSIP # {} THEN SupervisorSoftwareInterrupt
                 ELSE IF s_pending \cap MIP_STIP # {} THEN SupervisorTimerInterrupt
                 ELSE None
            ELSE m_cause
    IN IF pending = {} \/ selected_cause = None
       THEN NoTrap
       ELSE Trap(h.pc, selected_cause, {})

\* Hart::set_interrupt_pending: MIP::set_pending or MIP::clear_pending.
set_interrupt_pending(h, mip_mask, pending) ==
    IF pending
    THEN [h EXCEPT !.csrs.mip = h.csrs.mip \cup (mip_mask \cap MIP_read_mask)]
    ELSE [h EXCEPT !.csrs.mip = h.csrs.mip \ mip_mask]

\* ------------------------------------------------------------------ DRAM

\* Dram::DRAM_BASE = 0x80000000
DRAM_BASE == {31}

\* The size the Dram is constructed with, in bytes: three pages.
DRAM_SIZE == 12288

\* Dram::is_valid_addr
Dram_is_valid_addr(addr, len) ==
    IF ~Geq64(addr, DRAM_BASE) THEN FALSE
    ELSE LET offset == Sub64(addr, DRAM_BASE)
         IN ~(len > DRAM_SIZE \/ ~Geq64(BitsOf(DRAM_SIZE - len), offset))

\* mem_[o]: the Dram is held as the function from the offsets of its nonzero
\* bytes to those bytes; every other byte of mem_ is 0.
Dram_byte(d, o) == IF o \in DOMAIN d THEN d[o] ELSE 0

\* Dram::read<T>: sizeof(T) = len bytes, little endian.
Dram_read(d, addr, len) ==
    LET offset == NatOf(Sub64(addr, DRAM_BASE))
    IN UNION {Shl(BitsOf(Dram_byte(d, offset + i)), 8 * i) : i \in 0..(len - 1)}

\* Dram::write<T>
Dram_write(d, addr, len, value) ==
    LET offset == NatOf(Sub64(addr, DRAM_BASE))
        byte(o) == IF o >= offset /\ o < offset + len
                   THEN NatOf(Shr(value, 8 * (o - offset)) \cap (0..7))
                   ELSE Dram_byte(d, o)
    IN [o \in {x \in DOMAIN d \cup (offset..(offset + len - 1)) : byte(x) # 0}
          |-> byte(o)]

\* --------------------------------------------------------------- devices

\* Device::contains for a device at [start, start + size - 1].
Device_contains(start, size, addr, len) ==
    LET end == Add64(BitsOf(start), BitsOf(size - 1))
    IN /\ Geq64(addr, BitsOf(start)) /\ Geq64(end, addr)
       /\ ~(len > 0 /\ ~Geq64(end, Add64(addr, BitsOf(len - 1))))

\* Device::read_little_endian and Device::write_little_endian on an 8-byte
\* buffer held as a 64-bit value.
read_little_endian(src, offset, size, out_val) ==
    IF size = 0 \/ offset + size > 8 THEN out_val
    ELSE Shr(src, 8 * offset) \cap (0..(8 * size - 1))

write_little_endian(dst, offset, size, value) ==
    IF size = 0 \/ offset + size > 8 THEN dst
    ELSE (dst \ ((8 * offset)..(8 * (offset + size) - 1)))
         \cup Shl(value \cap (0..(8 * size - 1)), 8 * offset)

\* ExecutionEngine::request_shutdown_from_guest
request_shutdown_from_guest(e, code, status) ==
    [e EXCEPT !.shutdown_from_guest_ = TRUE,
              !.shutdown_code_ = code,
              !.shutdown_status_ = status]

\* ExecutionEngine::request_shutdown_from_host
request_shutdown_from_host(e) == [e EXCEPT !.shutdown_from_host_ = TRUE]

\* SiFiveTest::DEFAULT_BASE, SiFiveTest::SIZE and SiFiveTest::Status
SiFiveTest_DEFAULT_BASE == 1048576
SiFiveTest_SIZE == 4096
Status_FAIL == 13107
Status_PASS == 21845
Status_RESET == 30583

\* SiFiveTest::write_internal as src/device/sifive_test.cpp defines it: it
\* subtracts start_ from the address it is handed.  on_shutdown_ is the
\* callback Emulator::Emulator installs, request_shutdown_from_guest.
SiFiveTest_write_internal(m, addr, size, value) ==
    LET offset == Sub64(addr, BitsOf(SiFiveTest_DEFAULT_BASE))
        status == NatOf(value \cap (0..15))
        code == NatOf(Shr(value, 16) \cap (0..15))
    IN IF offset = {} /\ status \in {Status_FAIL, Status_PASS, Status_RESET}
       THEN [m EXCEPT !.engine = request_shutdown_from_guest(m.engine, code, status)]
       ELSE m

\* Clint::DEFAULT_BASE, Clint::SIZE and the register offsets
Clint_DEFAULT_BASE == 33554432
Clint_SIZE == 65536
MSIP_OFFSET == 0
MTIMECMP_OFFSET == 16384
MTIME_OFFSET == 49144

\* Clint::handle_time: TIME::mirror_from_mtime
handle_time(m) == [m EXCEPT !.hart.csrs.time = m.clint.mtime_]

\* Clint::handle_mtimecmp raising MTIP only once mtime has passed mtimecmp.
handle_mtimecmp_strictly_after(m) ==
    [m EXCEPT !.hart = set_interrupt_pending(m.hart, MIP_MTIP,
                           m.clint.mtime_ # m.clint.mtimecmp_
                           /\ Geq64(m.clint.mtime_, m.clint.mtimecmp_))]

\* Clint::handle_mtimecmp
handle_mtimecmp(m) ==
    [m EXCEPT !.hart = set_interrupt_pending(m.hart, MIP_MTIP,
                                             Geq64(m.clint.mtime_, m.clint.mtimecmp_))]

\* Clint::handle_stimecmp
handle_stimecmp(m) ==
    IF (m.hart.csrs.menvcfg \cap MENVCFG_mask) \cap MENVCFG_STCE # {}
    THEN [m EXCEPT !.hart = set_interrupt_pending(m.hart, MIP_STIP,
                                Geq64(m.clint.mtime_, m.hart.csrs.stimecmp))]
    ELSE m

\* Clint::tick: mtime_ is recomputed from the steady clock, read as now.
Clint_tick(m, now) ==
    The({The({handle_stimecmp(m2)
              : m2 \in {handle_mtimecmp(m1)}})
         : m1 \in {handle_time([m EXCEPT !.clint.mtime_ = now])}})

\* Clint::write_internal: the machine after the write, and the bool returned.
Clint_write_internal(m, offset, size, value) ==
    IF offset >= MSIP_OFFSET /\ offset < MSIP_OFFSET + 4
    THEN LET msip_val == write_little_endian({}, offset - MSIP_OFFSET, size, value)
         IN [m |-> [m EXCEPT !.hart = set_interrupt_pending(m.hart, MIP_MSIP,
                                                            0 \in msip_val)],
             res |-> TRUE]
    ELSE IF offset >= MTIMECMP_OFFSET /\ offset < MTIMECMP_OFFSET + 8
    THEN [m |-> The({The({The({handle_stimecmp(m3)
                    : m3 \in {handle_mtimecmp(m2)}})
                    : m2 \in {handle_time(m1)}})
                    : m1 \in {[m EXCEPT !.clint.mtimecmp_ =
                                  write_little_endian(m.clint.mtimecmp_,
                                      offset - MTIMECMP_OFFSET, size, value)]}}),
          res |-> TRUE]
    ELSE IF offset >= MTIME_OFFSET /\ offset < MTIME_OFFSET + 8
    THEN [m |-> The({The({The({handle_stimecmp(m3)
                    : m3 \in {handle_mtimecmp(m2)}})
                    : m2 \in {handle_time(m1)}})
                    : m1 \in {[m EXCEPT !.clint.mtime_ =
                                  write_little_endian(m.clint.mtime_,
                                      offset - MTIME_OFFSET, size, value)]}}),
          res |-> TRUE]
    ELSE [m |-> m, res |-> FALSE]

\* Clint::read_internal: the optional it returns (has_value, value).
Clint_read_internal(m, offset, size) ==
    IF size > 8 THEN [has_value |-> FALSE, value |-> {}]
    ELSE IF offset >= MSIP_OFFSET /\ offset < MSIP_OFFSET + 4
    THEN LET msip_val == IF MIP_read(m.hart) \cap MIP_MSIP # {} THEN {0} ELSE {}
         IN [has_value |-> TRUE,
             value |-> read_little_endian(msip_val, offset - MSIP_OFFSET, size, {})]
    ELSE IF offset >= MTIMECMP_OFFSET /\ offset < MTIMECMP_OFFSET + 8
    THEN [has_value |-> TRUE,
          value |-> read_little_endian(m.clint.mtimecmp_,
                                       offset - MTIMECMP_OFFSET, size, {})]
    ELSE IF offset >= MTIME_OFFSET /\ offset < MTIME_OFFSET + 8
    THEN [has_value |-> TRUE,
          value |-> read_little_endian(m.clint.mtime_, offset - MTIME_OFFSET, size, {})]
    ELSE [has_value |-> FALSE, value |-> {}]

\* ------------------------------------------------------------------- bus

\* Device::write<T>: the handler is handed addr - start_.  The devices on the
\* bus are the CLINT and the SiFive-test device.
Device_write(m, start, addr, size, value) ==
    LET offset == Sub64(addr, BitsOf(start))
    IN IF start = Clint_DEFAULT_BASE
       THEN Clint_write_internal(m, NatOf(offset), size, value).m
       ELSE SiFiveTest_write_internal(m, offset, size, value)

\* Device::Device: the range [start_, end_] with end_ = start + size - 1.
Device_new(name, start, size) ==
    [name |-> name, start_ |-> start, end_ |-> Sub64(Add64(start, size), {0})]

\* std::max and std::min on addr_t
Max64(a, b) == IF Geq64(a, b) THEN a ELSE b

Min64(a, b) == IF Geq64(a, b) THEN b ELSE a

\* Bus::check_overlap decided on the two start addresses alone: the first
\* range begins inside the second.
check_overlap_of_start(s1, e1, s2, e2) == Geq64(s1, s2) /\ Geq64(e2, s1)

\* Bus::check_overlap
check_overlap(s1, e1, s2, e2) == Geq64(Min64(e1, e2), Max64(s1, s2))

\* A null std::shared_ptr<Device>.
NullDevice == [name |-> "null", start_ |-> {}, end_ |-> {}]

\* Bus::add_device: the bus afterwards and whether std::runtime_error was
\* thrown.
Bus_add_device(b, dev) ==
    LET dram_start == DRAM_BASE
        dram_end == Sub64(Add64(dram_start, BitsOf(DRAM_SIZE)), {0})
    IN IF dev = NullDevice THEN [bus |-> b, threw |-> TRUE]
       ELSE IF check_overlap(dev.start_, dev.end_, dram_start, dram_end)
       THEN [bus |-> b, threw |-> TRUE]
       ELSE IF \E k \in 1..Len(b.devices_) :
                  check_overlap(dev.start_, dev.end_,
                                b.devices_[k].start_, b.devices_[k].end_)
       THEN [bus |-> b, threw |-> TRUE]
       ELSE [bus |-> [b EXCEPT !.devices_ = Append(@, dev)], threw |-> FALSE]

\* Bus::Bus: no device is registered.
BusReset == [devices_ |-> <<>>]

\* The bus as Emulator::Emulator leaves it, with the devices carried here:
\* the Clint and the SiFiveTest.
BusEmulator ==
    Bus_add_device(
        Bus_add_device(BusReset,
            Device_new("Clint", BitsOf(Clint_DEFAULT_BASE), BitsOf(Clint_SIZE))).bus,
        Device_new("SiFiveTest", BitsOf(SiFiveTest_DEFAULT_BASE),
                   BitsOf(SiFiveTest_SIZE))).bus

\* Bus::write<T>: DRAM first, then the first device that contains the range;
\* the device's own result is dropped.
Bus_write(m, addr, size, value) ==
    IF Dram_is_valid_addr(addr, size)
    THEN [m |-> [m EXCEPT !.dram = Dram_write(m.dram, addr, size, value)], res |-> TRUE]
    ELSE IF Device_contains(Clint_DEFAULT_BASE, Clint_SIZE, addr, size)
    THEN [m |-> Device_write(m, Clint_DEFAULT_BASE, addr, size, value), res |-> TRUE]
    ELSE IF Device_contains(SiFiveTest_DEFAULT_BASE, SiFiveTest_SIZE, addr, size)
    THEN [m |-> Device_write(m, SiFiveTest_DEFAULT_BASE, addr, size, value), res |-> TRUE]
    ELSE [m |-> m, res |-> FALSE]

\* Bus::read<T>: the optional it returns.  SiFiveTest::read_internal is 0.
Bus_read(m, addr, size) ==
    IF Dram_is_valid_addr(addr, size)
    THEN [has_value |-> TRUE, value |-> Dram_read(m.dram, addr, size)]
    ELSE IF Device_contains(Clint_DEFAULT_BASE, Clint_SIZE, addr, size)
    THEN Clint_read_internal(m, NatOf(Sub64(addr, BitsOf(Clint_DEFAULT_BASE))), size)
    ELSE IF Device_contains(SiFiveTest_DEFAULT_BASE, SiFiveTest_SIZE, addr, size)
    THEN [has_value |-> TRUE, value |-> {}]
    ELSE [has_value |-> FALSE, value |-> {}]

\* ------------------------------------------------------------------- MMU

\* Bus::accessible: whether DRAM or a device owns the byte at addr.
Bus_accessible(addr) ==
    IF Dram_is_valid_addr(addr, 1) THEN TRUE
    ELSE IF Device_contains(Clint_DEFAULT_BASE, Clint_SIZE, addr, 1) THEN TRUE
    ELSE Device_contains(SiFiveTest_DEFAULT_BASE, SiFiveTest_SIZE, addr, 1)

\* MMU::PTE_V .. MMU::PTE_D, MSTATUS::SUM and MXR, MENVCFG::ADUE
PTE_V == {0}
PTE_R == {1}
PTE_W == {2}
PTE_X == {3}
PTE_U == {4}
PTE_A == {6}
PTE_D == {7}
MSTATUS_SUM == {18}
MSTATUS_MXR == {19}
MENVCFG_ADUE == {61}

\* MMU::LEVELS, PGSHIFT, VPNBITS, and SATP::Mode
LEVELS == 3
PGSHIFT == 12
VPNBITS == 9
SATP_Bare == 0
SATP_Sv39 == 8

\* MMU::raise_page_fault and MMU::raise_access_fault: the Trap thrown.
raise_page_fault(pc, vaddr, type) ==
    Trap(pc, CASE type = "Fetch" -> InstructionPageFault
               [] type = "Load" -> LoadPageFault
               [] type = "Store" -> StoreAMOPageFault, vaddr)

raise_access_fault(pc, vaddr, type) ==
    Trap(pc, CASE type = "Fetch" -> InstructionAccessFault
               [] type = "Load" -> LoadAccessFault
               [] type = "Store" -> StoreAMOAccessFault, vaddr)

\* The result of MMU::translate: the machine (a PTE may have been written),
\* the Trap thrown (NoTrap if none) and the physical address returned.
Translated(m, paddr) == [m |-> m, trap |-> NoTrap, paddr |-> paddr]
TranslateFault(m, trap) == [m |-> m, trap |-> trap, paddr |-> {}]

\* MMU::translate, the walk loop: pte_addr = a + vpn_i * PTESIZE.
pte_addr_of(vaddr, i, a) ==
    Add64(a, Shl(Shr(vaddr, PGSHIFT + i * VPNBITS) \cap (0..(VPNBITS - 1)), 3))

\* MMU::translate, the walk loop from "if (i > 0)" on: the leaf PTE pte read
\* from pte_addr at level i.
Sv39_leaf(m, pc, vaddr, type, priv, i, pte_addr, pte) ==
    LET mstatus == csr_read_unchecked(m.hart, MSTATUS_ADDRESS)
        sum == mstatus \cap MSTATUS_SUM # {}
        mxr == mstatus \cap MSTATUS_MXR # {}
        adue == (m.hart.csrs.menvcfg \cap MENVCFG_mask) \cap MENVCFG_ADUE # {}
        pte_ppn == Shr(pte, 10) \cap (0..43)
        vpn_mask == 0..(i * VPNBITS - 1)
        user_fault == IF pte \cap PTE_U # {}
                      THEN priv = PRIV_S /\ (type = "Fetch" \/ ~sum)
                      ELSE priv = PRIV_U
        allowed == CASE type = "Fetch" -> pte \cap PTE_X # {}
                     [] type = "Load" -> \/ pte \cap PTE_R # {}
                                         \/ mxr /\ pte \cap PTE_X # {}
                     [] type = "Store" -> pte \cap PTE_W # {}
        new_pte == pte \cup PTE_A \cup (IF type = "Store" THEN PTE_D ELSE {})
        paddr == IF i > 0
                 THEN Shl((pte_ppn \ vpn_mask) \cup (Shr(vaddr, PGSHIFT) \cap vpn_mask),
                          PGSHIFT) \cup (vaddr \cap (0..(PGSHIFT - 1)))
                 ELSE Shl(pte_ppn, PGSHIFT) \cup (vaddr \cap (0..(PGSHIFT - 1)))
    IN IF i > 0 /\ pte_ppn \cap vpn_mask # {}
       THEN TranslateFault(m, raise_page_fault(pc, vaddr, type))
       ELSE IF user_fault
       THEN TranslateFault(m, raise_page_fault(pc, vaddr, type))
       ELSE IF ~allowed
       THEN TranslateFault(m, raise_page_fault(pc, vaddr, type))
       ELSE IF pte \cap PTE_A = {} \/ (type = "Store" /\ pte \cap PTE_D = {})
       THEN IF ~adue
            THEN TranslateFault(m, raise_page_fault(pc, vaddr, type))
            ELSE The({IF ~w.res
                      THEN TranslateFault(w.m, raise_access_fault(pc, vaddr, type))
                      ELSE Translated(w.m, paddr)
                      : w \in {Bus_write(m, pte_addr, 8, new_pte)}})
       ELSE Translated(m, paddr)

\* MMU::translate, one turn of "while (true)" at level i with table base a.
RECURSIVE Sv39_walk(_, _, _, _, _, _, _)
\* The walk with PTE.A written back as soon as the PTE has been read, before
\* the PTE is examined.
Sv39_walk_marks_accessed_first(m, pc, vaddr, type, priv, i, a) ==
    The({IF ~r.has_value
         THEN TranslateFault(m, raise_access_fault(pc, vaddr, type))
         ELSE The({
              IF r.value \cap PTE_V = {}
                 \/ (r.value \cap PTE_R = {} /\ r.value \cap PTE_W # {})
              THEN TranslateFault(w.m, raise_page_fault(pc, vaddr, type))
              ELSE IF Shr(r.value, 54) # {}
              THEN TranslateFault(w.m, raise_page_fault(pc, vaddr, type))
              ELSE IF r.value \cap (PTE_R \cup PTE_X) = {}
              THEN IF r.value \cap (PTE_D \cup PTE_A \cup PTE_U) # {}
                   THEN TranslateFault(w.m, raise_page_fault(pc, vaddr, type))
                   ELSE IF i - 1 < 0
                   THEN TranslateFault(w.m, raise_page_fault(pc, vaddr, type))
                   ELSE Sv39_walk(m, pc, vaddr, type, priv, i - 1,
                                  Shl(Shr(r.value, 10) \cap (0..43), PGSHIFT))
              ELSE Sv39_leaf(w.m, pc, vaddr, type, priv, i, pte_addr_of(vaddr, i, a),
                             r.value \cup PTE_A)
              : w \in {Bus_write(m, pte_addr_of(vaddr, i, a), 8, r.value \cup PTE_A)}})
         : r \in {Bus_read(m, pte_addr_of(vaddr, i, a), 8)}})

Sv39_walk(m, pc, vaddr, type, priv, i, a) ==
    The({IF ~r.has_value
         THEN TranslateFault(m, raise_access_fault(pc, vaddr, type))
         ELSE IF r.value \cap PTE_V = {}
                 \/ (r.value \cap PTE_R = {} /\ r.value \cap PTE_W # {})
         THEN TranslateFault(m, raise_page_fault(pc, vaddr, type))
         ELSE IF Shr(r.value, 54) # {}
         THEN TranslateFault(m, raise_page_fault(pc, vaddr, type))
         ELSE IF r.value \cap (PTE_R \cup PTE_X) = {}
         THEN IF r.value \cap (PTE_D \cup PTE_A \cup PTE_U) # {}
              THEN TranslateFault(m, raise_page_fault(pc, vaddr, type))
              ELSE IF i - 1 < 0
              THEN TranslateFault(m, raise_page_fault(pc, vaddr, type))
              ELSE Sv39_walk(m, pc, vaddr, type, priv, i - 1,
                             Shl(Shr(r.value, 10) \cap (0..43), PGSHIFT))
         ELSE Sv39_leaf(m, pc, vaddr, type, priv, i, pte_addr_of(vaddr, i, a), r.value)
         : r \in {Bus_read(m, pte_addr_of(vaddr, i, a), 8)}})

\* MMU::translate without the return for privilege M: satp.MODE alone
\* decides whether the tables are walked.
translate_without_m_return(m, pc, vaddr, type) ==
    LET satp == m.hart.csrs.satp
        mode == NatOf(Shr(satp, 60))
    IN IF mode # SATP_Sv39 THEN Translated(m, vaddr)
       ELSE IF (vaddr \cap (38..63)) \notin {{}, 38..63}
       THEN TranslateFault(m, raise_page_fault(pc, vaddr, type))
       ELSE Sv39_walk(m, pc, vaddr, type, PRIV_S, LEVELS - 1,
                      Shl(satp \cap (0..43), PGSHIFT))

\* MMU::translate.  A satp.MODE other than Bare and Sv39 ends the process
\* (std::terminate) and is no case here.
translate(m, pc, vaddr, type) ==
    LET mstatus == csr_read_unchecked(m.hart, MSTATUS_ADDRESS)
        priv == IF type # "Fetch" /\ mstatus \cap MSTATUS_MPRV # {}
                THEN NatOf(Shr(mstatus \cap MSTATUS_MPP, MPP_SHIFT))
                ELSE m.hart.priv
        satp == m.hart.csrs.satp
        mode == NatOf(Shr(satp, 60))
    IN CASE priv = PRIV_M -> Translated(m, vaddr)
         [] priv # PRIV_M /\ mode = SATP_Bare -> Translated(m, vaddr)
         [] priv # PRIV_M /\ mode = SATP_Sv39 ->
                IF (vaddr \cap (38..63)) \notin {{}, 38..63}
                THEN TranslateFault(m, raise_page_fault(pc, vaddr, type))
                ELSE Sv39_walk(m, pc, vaddr, type, priv, LEVELS - 1,
                               Shl(satp \cap (0..43), PGSHIFT))

\* MMU::write<T>, "for (size_t i = 0; i < size; i++)" of the unaligned path,
\* first loop from byte i on: the machine, the Trap thrown and paddrs.
RECURSIVE write_translate_bytes(_, _, _, _, _, _)
write_translate_bytes(m, pc, addr, size, i, paddrs) ==
    IF i = size THEN [m |-> m, trap |-> NoTrap, paddrs |-> paddrs]
    ELSE The({IF t.trap # NoTrap
              THEN [m |-> t.m, trap |-> t.trap, paddrs |-> paddrs]
              ELSE IF ~Bus_accessible(t.paddr)
              THEN [m |-> t.m, trap |-> Trap(pc, StoreAMOAccessFault, addr),
                    paddrs |-> paddrs]
              ELSE write_translate_bytes(t.m, pc, addr, size, i + 1,
                                         Append(paddrs, t.paddr))
              : t \in {translate(m, pc, Add64(addr, BitsOf(i)), "Store")}})

\* MMU::write<T>, the second loop of the unaligned path from byte i on.
RECURSIVE write_bytes(_, _, _, _, _, _)
\* The second loop storing the bytes of value most significant first.
write_bytes_big_endian(m, pc, addr, paddrs, value, i) ==
    IF i > Len(paddrs) THEN [m |-> m, trap |-> NoTrap]
    ELSE The({IF ~w.res
              THEN [m |-> w.m, trap |-> Trap(pc, StoreAMOAccessFault, addr)]
              ELSE write_bytes(w.m, pc, addr, paddrs, value, i + 1)
              : w \in {Bus_write(m, paddrs[i], 1,
                                 Shr(value, 8 * (Len(paddrs) - i)) \cap (0..7))}})

write_bytes(m, pc, addr, paddrs, value, i) ==
    IF i > Len(paddrs) THEN [m |-> m, trap |-> NoTrap]
    ELSE The({IF ~w.res
              THEN [m |-> w.m, trap |-> Trap(pc, StoreAMOAccessFault, addr)]
              ELSE write_bytes(w.m, pc, addr, paddrs, value, i + 1)
              : w \in {Bus_write(m, paddrs[i], 1,
                                 Shr(value, 8 * (i - 1)) \cap (0..7))}})

\* An unaligned path that translates, checks and stores one byte before it
\* turns to the next, from byte i on.
RECURSIVE write_each_byte(_, _, _, _, _, _)
write_each_byte(m, pc, addr, size, value, i) ==
    IF i = size THEN [m |-> m, trap |-> NoTrap]
    ELSE The({IF t.trap # NoTrap THEN [m |-> t.m, trap |-> t.trap]
              ELSE IF ~Bus_accessible(t.paddr)
              THEN [m |-> t.m, trap |-> Trap(pc, StoreAMOAccessFault, addr)]
              ELSE write_each_byte(
                       Bus_write(t.m, t.paddr, 1, Shr(value, 8 * i) \cap (0..7)).m,
                       pc, addr, size, value, i + 1)
              : t \in {translate(m, pc, Add64(addr, BitsOf(i)), "Store")}})

\* MMU::write<T> with the one-loop unaligned path.
MMU_write_one_loop(m, pc, addr, size, value) ==
    IF addr \cap BitsOf(size - 1) = {}
    THEN The({IF t.trap # NoTrap THEN [m |-> t.m, trap |-> t.trap]
              ELSE The({IF ~w.res
                        THEN [m |-> w.m, trap |-> Trap(pc, StoreAMOAccessFault, addr)]
                        ELSE [m |-> w.m, trap |-> NoTrap]
                        : w \in {Bus_write(t.m, t.paddr, size, value)}})
              : t \in {translate(m, pc, addr, "Store")}})
    ELSE write_each_byte(m, pc, addr, size, value, 0)

\* MMU::write<T>: the machine after the write and the Trap thrown (NoTrap if
\* none).  The reservation is not consulted.
MMU_write(m, pc, addr, size, value) ==
    IF addr \cap BitsOf(size - 1) = {}
    THEN The({IF t.trap # NoTrap THEN [m |-> t.m, trap |-> t.trap]
              ELSE The({IF ~w.res
                        THEN [m |-> w.m, trap |-> Trap(pc, StoreAMOAccessFault, addr)]
                        ELSE [m |-> w.m, trap |-> NoTrap]
                        : w \in {Bus_write(t.m, t.paddr, size, value)}})
              : t \in {translate(m, pc, addr, "Store")}})
    ELSE The({IF p.trap # NoTrap THEN [m |-> p.m, trap |-> p.trap]
              ELSE write_bytes(p.m, pc, addr, p.paddrs, value, 1)
              : p \in {write_translate_bytes(m, pc, addr, size, 0, <<>>)}})

\* MMU::read<T>, the first loop of the unaligned path from byte i on.
RECURSIVE read_translate_bytes(_, _, _, _, _, _)
read_translate_bytes(m, pc, addr, size, i, paddrs) ==
    IF i = size THEN [m |-> m, trap |-> NoTrap, paddrs |-> paddrs]
    ELSE The({IF t.trap # NoTrap
              THEN [m |-> t.m, trap |-> t.trap, paddrs |-> paddrs]
              ELSE IF ~Bus_accessible(t.paddr)
              THEN [m |-> t.m, trap |-> Trap(pc, LoadAccessFault, addr),
                    paddrs |-> paddrs]
              ELSE read_translate_bytes(t.m, pc, addr, size, i + 1,
                                        Append(paddrs, t.paddr))
              : t \in {translate(m, pc, Add64(addr, BitsOf(i)), "Load")}})

\* MMU::read<T>, the second loop of the unaligned path from byte i on, and
\* the memcpy of bytes into result.
RECURSIVE read_bytes(_, _, _, _, _, _)
read_bytes(m, pc, addr, paddrs, i, result) ==
    IF i > Len(paddrs) THEN [m |-> m, value |-> result, trap |-> NoTrap]
    ELSE The({IF ~v.has_value
              THEN [m |-> m, value |-> {}, trap |-> Trap(pc, LoadAccessFault, addr)]
              ELSE read_bytes(m, pc, addr, paddrs, i + 1,
                              result \cup Shl(v.value \cap (0..7), 8 * (i - 1)))
              : v \in {Bus_read(m, paddrs[i], 1)}})

\* MMU::read<T>: the machine after the translations, the value read and the
\* Trap thrown.
MMU_read(m, pc, addr, size) ==
    IF addr \cap BitsOf(size - 1) = {}
    THEN The({IF t.trap # NoTrap THEN [m |-> t.m, value |-> {}, trap |-> t.trap]
              ELSE The({IF ~v.has_value
                        THEN [m |-> t.m, value |-> {},
                              trap |-> Trap(pc, LoadAccessFault, addr)]
                        ELSE [m |-> t.m, value |-> v.value, trap |-> NoTrap]
                        : v \in {Bus_read(t.m, t.paddr, size)}})
              : t \in {translate(m, pc, addr, "Load")}})
    ELSE The({IF p.trap # NoTrap THEN [m |-> p.m, value |-> {}, trap |-> p.trap]
              ELSE read_bytes(p.m, pc, addr, p.paddrs, 1, {})
              : p \in {read_translate_bytes(m, pc, addr, size, 0, <<>>)}})

\* MMU::may_cross_page
may_cross_page(pc) == pc \cap (0..(PGSHIFT - 1)) = 1..(PGSHIFT - 1)

\* Decoder::is_compressed: the two low bits are not both set.
is_compressed(insn) == ~({0, 1} \subseteq insn)

\* The result of MMU::ifetch: the machine, the Trap thrown, and the pair
\* returned (the encoding and Ilen, 2 or 4).
Fetched(m, insn, len) == [m |-> m, trap |-> NoTrap, insn |-> insn, len |-> len]
FetchFault(m, trap) == [m |-> m, trap |-> trap, insn |-> {}, len |-> 0]

\* The second 16-bit read taken from the two bytes that follow the first
\* halfword in physical memory, with no translation of pc + 2.
ifetch_second_untranslated(m, pc, insn) ==
    The({IF ~v.has_value
         THEN FetchFault(m, Trap(pc, InstructionAccessFault, Add64(pc, BitsOf(2))))
         ELSE Fetched(m, (insn \cap (0..15)) \cup (Shl(v.value, 16) \cap (0..31)), 4)
         : v \in {Bus_read(m, Add64(translate(m, pc, pc, "Fetch").paddr, BitsOf(2)), 2)}})

\* MMU::ifetch, the second 16-bit read of a fetch that crosses a page.
ifetch_second(m, pc, insn) ==
    The({IF t.trap # NoTrap THEN FetchFault(t.m, t.trap)
         ELSE The({IF ~v.has_value
                   THEN FetchFault(t.m, Trap(pc, InstructionAccessFault,
                                             Add64(pc, BitsOf(2))))
                   ELSE Fetched(t.m, (insn \cap (0..15)) \cup
                                     (Shl(v.value, 16) \cap (0..31)), 4)
                   : v \in {Bus_read(t.m, t.paddr, 2)}})
         : t \in {translate(m, pc, Add64(pc, BitsOf(2)), "Fetch")}})

\* MMU::ifetch
ifetch(m) ==
    The({IF t.trap # NoTrap THEN FetchFault(t.m, t.trap)
         ELSE IF ~may_cross_page(pc)
         THEN The({IF ~v.has_value
                   THEN FetchFault(t.m, Trap(pc, InstructionAccessFault, pc))
                   ELSE IF is_compressed(v.value)
                   THEN Fetched(t.m, v.value \cap (0..15), 2)
                   ELSE Fetched(t.m, v.value, 4)
                   : v \in {Bus_read(t.m, t.paddr, 4)}})
         ELSE The({IF ~v.has_value
                   THEN FetchFault(t.m, Trap(pc, InstructionAccessFault, pc))
                   ELSE IF is_compressed(v.value)
                   THEN Fetched(t.m, v.value, 2)
                   ELSE ifetch_second(t.m, pc, v.value)
                   : v \in {Bus_read(t.m, t.paddr, 2)}})
         : pc \in {m.hart.pc}, t \in {translate(m, m.hart.pc, m.hart.pc, "Fetch")}})

\* ------------------------------------------------------------- executors

\* sext(v, 32)
sext32(v) == IF 31 \in v THEN (v \cap (0..31)) \cup (32..63) ELSE v \cap (0..31)

\* CSR::read_checked: the Trap thrown, if any.
csr_checked_trap(h, d) ==
    IF ~check_permissions(h, d.csr)
    THEN Trap(d.pc, IllegalInstruction, d.insn)
    ELSE NoTrap

\* CSR::write_checked, and ConstCSR::write_checked for the read-only cycle:
\* the Trap thrown, if any.
csr_write_checked_trap(h, d) ==
    IF d.csr = CYCLE_ADDRESS
    THEN Trap(d.pc, IllegalInstruction, d.insn)
    ELSE csr_checked_trap(h, d)

\* bits(d->insn, 19, 15): the immediate of the CSR instructions' I forms.
zimm_of(d) == BitsOf(d.rs1)

exec_csrrw(m, d) ==
    LET rt == csr_checked_trap(m.hart, d)
        wt == csr_write_checked_trap(m.hart, d)
        old == csr_read_unchecked(m.hart, d.csr)
        h1 == csr_write_checked(m.hart, d.csr, R_read(m.hart, d.rs1))
    IN IF d.rd # 0
       THEN IF rt # NoTrap THEN [m |-> m, trap |-> rt]
            ELSE IF wt # NoTrap THEN [m |-> m, trap |-> wt]
            ELSE [m |-> [m EXCEPT !.hart = R_write(h1, d.rd, old)], trap |-> NoTrap]
       ELSE IF wt # NoTrap THEN [m |-> m, trap |-> wt]
            ELSE [m |-> [m EXCEPT !.hart = h1], trap |-> NoTrap]

\* exec_csrrwi: R.write(rd, read_checked) comes before write_checked(zimm).
exec_csrrwi(m, d) ==
    LET rt == csr_checked_trap(m.hart, d)
        wt == csr_write_checked_trap(m.hart, d)
        h1 == IF d.rd # 0
              THEN R_write(m.hart, d.rd, csr_read_unchecked(m.hart, d.csr))
              ELSE m.hart
    IN IF d.rd # 0 /\ rt # NoTrap THEN [m |-> m, trap |-> rt]
       ELSE IF wt # NoTrap THEN [m |-> [m EXCEPT !.hart = h1], trap |-> wt]
       ELSE [m |-> [m EXCEPT !.hart = csr_write_checked(h1, d.csr, zimm_of(d))],
             trap |-> NoTrap]

\* The body shared by exec_csrrs, exec_csrrc, exec_csrrsi and exec_csrrci:
\* t = read_checked; if (writes) write_checked(v); R.write(rd, t), where v is
\* worked out from t.
csr_read_modify(m, d, writes, v) ==
    LET rt == csr_checked_trap(m.hart, d)
        wt == csr_write_checked_trap(m.hart, d)
        old == csr_read_unchecked(m.hart, d.csr)
    IN IF rt # NoTrap THEN [m |-> m, trap |-> rt]
       ELSE IF writes /\ wt # NoTrap THEN [m |-> m, trap |-> wt]
       ELSE LET h1 == IF writes THEN csr_write_checked(m.hart, d.csr, v) ELSE m.hart
            IN [m |-> [m EXCEPT !.hart = R_write(h1, d.rd, old)], trap |-> NoTrap]

\* CSRRS that calls write_checked whatever rs1 is.
exec_csrrs_always_writes(m, d) ==
    csr_read_modify(m, d, TRUE,
                    csr_read_unchecked(m.hart, d.csr) \cup R_read(m.hart, d.rs1))

exec_csrrs(m, d) ==
    csr_read_modify(m, d, d.rs1 # 0,
                    csr_read_unchecked(m.hart, d.csr) \cup R_read(m.hart, d.rs1))

exec_csrrc(m, d) ==
    csr_read_modify(m, d, d.rs1 # 0,
                    csr_read_unchecked(m.hart, d.csr) \ R_read(m.hart, d.rs1))

exec_csrrsi(m, d) ==
    csr_read_modify(m, d, zimm_of(d) # {},
                    csr_read_unchecked(m.hart, d.csr) \cup zimm_of(d))

exec_csrrci(m, d) ==
    csr_read_modify(m, d, zimm_of(d) # {},
                    csr_read_unchecked(m.hart, d.csr) \ zimm_of(d))

\* exec_beq: a taken branch checks npc & 0x3 before it assigns hart->pc.
exec_beq(m, d) ==
    IF R_read(m.hart, d.rs1) = R_read(m.hart, d.rs2)
    THEN The({IF npc \cap {0, 1} # {}
              THEN [m |-> m, trap |-> Trap(d.pc, InstructionAddressMisaligned, npc)]
              ELSE [m |-> [m EXCEPT !.hart.pc = npc], trap |-> NoTrap]
              : npc \in {Add64(d.pc, d.imm)}})
    ELSE [m |-> m, trap |-> NoTrap]

exec_jal(m, d) ==
    The({IF npc \cap {0, 1} # {}
         THEN [m |-> m, trap |-> Trap(d.pc, InstructionAddressMisaligned, npc)]
         ELSE [m |-> [m EXCEPT !.hart = [R_write(m.hart, d.rd, Add64(d.pc, BitsOf(4)))
                                           EXCEPT !.pc = npc]],
               trap |-> NoTrap]
         : npc \in {Add64(d.pc, d.imm)}})

exec_jalr(m, d) ==
    The({IF npc \cap {0, 1} # {}
         THEN [m |-> m, trap |-> Trap(d.pc, InstructionAddressMisaligned, npc)]
         ELSE [m |-> [m EXCEPT !.hart = R_write([m.hart EXCEPT !.pc = npc], d.rd,
                                                Add64(d.pc, BitsOf(4)))],
               trap |-> NoTrap]
         : npc \in {Add64(R_read(m.hart, d.rs1), d.imm) \ {0}}})

exec_ebreak(m, d) == [m |-> m, trap |-> Trap(d.pc, Breakpoint, d.pc)]

\* exec_ecall raising the M-mode cause at every privilege.
exec_ecall_always_m(m, d) == [m |-> m, trap |-> Trap(d.pc, EnvironmentCallFromM, {})]

exec_ecall(m, d) ==
    [m |-> m,
     trap |-> CASE m.hart.priv = PRIV_M -> Trap(d.pc, EnvironmentCallFromM, {})
                [] m.hart.priv = PRIV_S -> Trap(d.pc, EnvironmentCallFromS, {})
                [] m.hart.priv = PRIV_U -> Trap(d.pc, EnvironmentCallFromU, {})]

\* exec_mret with the restore of MIE from MPIE left out.
exec_mret_keeps_mie(m, d) ==
    IF m.hart.priv # PRIV_M
    THEN [m |-> m, trap |-> Trap(d.pc, IllegalInstruction, d.insn)]
    ELSE LET h == m.hart
             mstatus == csr_read_unchecked(h, MSTATUS_ADDRESS)
             priv == NatOf(Shr(mstatus \cap MSTATUS_MPP, MPP_SHIFT))
             h1 == [h EXCEPT !.pc = csr_read_unchecked(h, MEPC_ADDRESS),
                             !.priv = priv]
             m3 == (mstatus \cup MSTATUS_MPIE) \ MSTATUS_MPP
         IN [m |-> [m EXCEPT !.hart = csr_write_unchecked(h1, MSTATUS_ADDRESS, m3)],
             trap |-> NoTrap]

exec_mret(m, d) ==
    IF m.hart.priv # PRIV_M
    THEN [m |-> m, trap |-> Trap(d.pc, IllegalInstruction, d.insn)]
    ELSE LET h == m.hart
             mstatus == csr_read_unchecked(h, MSTATUS_ADDRESS)
             priv == NatOf(Shr(mstatus \cap MSTATUS_MPP, MPP_SHIFT))
             h1 == [h EXCEPT !.pc = csr_read_unchecked(h, MEPC_ADDRESS),
                             !.priv = priv]
             m1 == IF priv # PRIV_M THEN mstatus \ MSTATUS_MPRV ELSE mstatus
             m2 == IF m1 \cap MSTATUS_MPIE # {}
                   THEN m1 \cup MSTATUS_MIE ELSE m1 \ MSTATUS_MIE
             m3 == (m2 \cup MSTATUS_MPIE) \ MSTATUS_MPP
         IN [m |-> [m EXCEPT !.hart = csr_write_unchecked(h1, MSTATUS_ADDRESS, m3)],
             trap |-> NoTrap]

exec_sret(m, d) ==
    IF \/ m.hart.priv = PRIV_U
       \/ m.hart.priv = PRIV_S
          /\ csr_read_unchecked(m.hart, MSTATUS_ADDRESS) \cap MSTATUS_TSR # {}
    THEN [m |-> m, trap |-> Trap(d.pc, IllegalInstruction, d.insn)]
    ELSE LET h == m.hart
             sstatus == csr_read_unchecked(h, SSTATUS_ADDRESS)
             priv == NatOf(Shr(sstatus \cap MSTATUS_SPP, SPP_SHIFT))
             h1 == [h EXCEPT !.pc = csr_read_unchecked(h, SEPC_ADDRESS),
                             !.priv = priv]
             s1 == IF priv # PRIV_M THEN sstatus \ MSTATUS_MPRV ELSE sstatus
             s2 == IF s1 \cap MSTATUS_SPIE # {}
                   THEN s1 \cup MSTATUS_SIE ELSE s1 \ MSTATUS_SIE
             s3 == (s2 \cup MSTATUS_SPIE) \ MSTATUS_SPP
         IN [m |-> [m EXCEPT !.hart = csr_write_unchecked(h1, SSTATUS_ADDRESS, s3)],
             trap |-> NoTrap]

\* exec_sw and exec_sd: mmu->write<T>(pc, R[rs1] + imm, R[rs2]).
exec_store(m, d, size) ==
    MMU_write(m, d.pc, Add64(R_read(m.hart, d.rs1), d.imm), size,
              R_read(m.hart, d.rs2) \cap (0..(8 * size - 1)))

exec_lr_w(m, d) ==
    The({IF v.trap # NoTrap THEN [m |-> v.m, trap |-> v.trap]
         ELSE [m |-> [v.m EXCEPT !.hart = R_write(v.m.hart, d.rd, sext32(v.value)),
                               !.mmu = [reservation_address |-> R_read(m.hart, d.rs1),
                                        reservation_valid |-> TRUE]],
               trap |-> NoTrap]
         : v \in {MMU_read(m, d.pc, R_read(m.hart, d.rs1), 4)}})

\* SC.W that compares no address: it succeeds whenever a reservation is held.
exec_sc_w_any_address(m, d) ==
    LET addr == R_read(m.hart, d.rs1)
    IN IF m.mmu.reservation_valid
       THEN The({IF w.trap # NoTrap THEN w
                 ELSE [m |-> [w.m EXCEPT !.hart = R_write(w.m.hart, d.rd, {}),
                                         !.mmu.reservation_valid = FALSE],
                       trap |-> NoTrap]
                 : w \in {MMU_write(m, d.pc, addr, 4,
                                    R_read(m.hart, d.rs2) \cap (0..31))}})
       ELSE [m |-> [m EXCEPT !.hart = R_write(m.hart, d.rd, {0}),
                             !.mmu.reservation_valid = FALSE],
             trap |-> NoTrap]

exec_sc_w(m, d) ==
    LET addr == R_read(m.hart, d.rs1)
    IN IF m.mmu.reservation_valid /\ m.mmu.reservation_address = addr
       THEN The({IF w.trap # NoTrap THEN w
                 ELSE [m |-> [w.m EXCEPT !.hart = R_write(w.m.hart, d.rd, {}),
                                         !.mmu.reservation_valid = FALSE],
                       trap |-> NoTrap]
                 : w \in {MMU_write(m, d.pc, addr, 4,
                                    R_read(m.hart, d.rs2) \cap (0..31))}})
       ELSE [m |-> [m EXCEPT !.hart = R_write(m.hart, d.rd, {0}),
                             !.mmu.reservation_valid = FALSE],
             trap |-> NoTrap]

exec_sc_d(m, d) ==
    LET addr == R_read(m.hart, d.rs1)
    IN IF m.mmu.reservation_valid /\ m.mmu.reservation_address = addr
       THEN The({IF w.trap # NoTrap THEN w
                 ELSE [m |-> [w.m EXCEPT !.hart = R_write(w.m.hart, d.rd, {}),
                                         !.mmu.reservation_valid = FALSE],
                       trap |-> NoTrap]
                 : w \in {MMU_write(m, d.pc, addr, 8,
                                    R_read(m.hart, d.rs2))}})
       ELSE [m |-> [m EXCEPT !.hart = R_write(m.hart, d.rd, {0}),
                             !.mmu.reservation_valid = FALSE],
             trap |-> NoTrap]

\* FPR::read_32 and FPR::write_32: a single is held NaN-boxed, and a value
\* that is not boxed reads as the default NaN 0x7fc00000.
FPR_read_32(v) == IF 32..63 \subseteq v THEN v \cap (0..31) ELSE 22..30

FPR_write_32(x) == (x \cap (0..31)) \cup (32..63)

\* fp_set_dirty with MSTATUS::write_unchecked left out: FS is set to Dirty
\* in place and SD is not recomputed.
fp_set_dirty_in_place(h) == [h EXCEPT !.csrs.mstatus = @ \cup MSTATUS_FS]

\* fp_set_dirty
fp_set_dirty(h) == MSTATUS_write(h, MSTATUS_read(h) \cup MSTATUS_FS)

\* exec_fsgnj_s: fp_inst_prep, the sign injection, fp_set_dirty.
exec_fsgnj_s(m, d) ==
    IF MSTATUS_read(m.hart) \cap MSTATUS_FS = {}
    THEN [m |-> m, trap |-> Trap(d.pc, IllegalInstruction, d.insn)]
    ELSE The({[m |-> [m EXCEPT !.hart =
                        fp_set_dirty([m.hart EXCEPT !.fprs[d.rd] =
                            FPR_write_32((f1 \ {31}) \cup (f2 \cap {31}))])],
               trap |-> NoTrap]
              : f1 \in {FPR_read_32(m.hart.fprs[d.rs1])},
                f2 \in {FPR_read_32(m.hart.fprs[d.rs2])}})

\* f32_isNaN: the exponent all ones and the fraction not zero.
f32_isNaN(x) == (23..30) \subseteq x /\ x \cap (0..22) # {}

\* SoftFloat's f32_isSignalingNaN: a NaN with the quiet bit clear.
f32_isSignalingNaN(x) == f32_isNaN(x) /\ 22 \notin x

\* SoftFloat's f32_lt_quiet and f32_eq: false for a NaN operand (both raise
\* invalid for a signaling NaN), else the comparison of the two singles.
f32_lt_quiet(a, b) ==
    IF f32_isNaN(a) \/ f32_isNaN(b) THEN FALSE
    ELSE IF (31 \in a) # (31 \in b)
    THEN 31 \in a /\ (a \cup b) \cap (0..30) # {}
    ELSE a # b /\ ((31 \in a) # (NatOf(a \ {31}) < NatOf(b \ {31})))

f32_eq(a, b) ==
    IF f32_isNaN(a) \/ f32_isNaN(b) THEN FALSE
    ELSE a = b \/ (a \cup b) \cap (0..30) = {}

\* fp_inst_end: fp_set_dirty, then fp_update_exception_flags on the flags
\* SoftFloat accumulated in softfloat_exceptionFlags.
fp_inst_end(h, softfloat_exceptionFlags) ==
    IF softfloat_exceptionFlags # {}
    THEN [fp_set_dirty(fp_set_dirty(h)) EXCEPT
             !.csrs.fflags = (@ \cup softfloat_exceptionFlags) \cap (0..4)]
    ELSE fp_set_dirty(h)

\* exec_fmin_s: fp_inst_prep, NV written to fflags for a signaling NaN, the
\* minimum, fp_inst_end.
exec_fmin_s(m, d) ==
    IF MSTATUS_read(m.hart) \cap MSTATUS_FS = {}
    THEN [m |-> m, trap |-> Trap(d.pc, IllegalInstruction, d.insn)]
    ELSE The({The({
            [m |-> [m EXCEPT !.hart =
                      fp_inst_end([h1 EXCEPT !.fprs[d.rd] = FPR_write_32(
                                      IF f32_isNaN(f1) /\ f32_isNaN(f2) THEN 22..30
                                      ELSE IF smaller \/ f32_isNaN(f2) THEN f1
                                      ELSE f2)],
                                  IF snan THEN {4} ELSE {})],
             trap |-> NoTrap]
            : h1 \in {IF snan
                      THEN [m.hart EXCEPT !.csrs.fflags = (@ \cup {4}) \cap (0..4)]
                      ELSE m.hart},
              smaller \in {f32_lt_quiet(f1, f2) \/ (f32_eq(f1, f2) /\ 31 \in f1)}})
            : f1 \in {FPR_read_32(m.hart.fprs[d.rs1])},
              f2 \in {FPR_read_32(m.hart.fprs[d.rs2])},
              snan \in {f32_isSignalingNaN(FPR_read_32(m.hart.fprs[d.rs1]))
                        \/ f32_isSignalingNaN(FPR_read_32(m.hart.fprs[d.rs2]))}})

exec_wfi(m, d) ==
    IF \/ m.hart.priv = PRIV_U
       \/ m.hart.priv < PRIV_M
          /\ csr_read_unchecked(m.hart, MSTATUS_ADDRESS) \cap {21} # {}
    THEN [m |-> m, trap |-> Trap(d.pc, IllegalInstruction, d.insn)]
    ELSE [m |-> m, trap |-> NoTrap]

\* The 32-bit encoding of the instruction f (RISC-V base, Zicsr and A
\* encodings), which the decoder keeps in DecodedInsn::insn.
Encoding(f) ==
    LET regs == f.rd * 128 + f.rs1 * 32768
        imm == NatOf(f.imm)
        csr == IF f.name \in {"csrrw", "csrrs", "csrrc", "csrrwi", "csrrsi", "csrrci"}
               THEN Shl(BitsOf(f.csr), 20) ELSE {}
    IN csr \cup
       BitsOf(CASE f.name = "ecall" -> 115
                [] f.name = "ebreak" -> 1048691
                [] f.name = "sret" -> 270532723
                [] f.name = "wfi" -> 273678451
                [] f.name = "mret" -> 807403635
                [] f.name = "csrrw" -> 4096 + regs + 115
                [] f.name = "csrrs" -> 8192 + regs + 115
                [] f.name = "csrrc" -> 12288 + regs + 115
                [] f.name = "csrrwi" -> 20480 + regs + 115
                [] f.name = "csrrsi" -> 24576 + regs + 115
                [] f.name = "csrrci" -> 28672 + regs + 115
                [] f.name = "beq" -> ((imm \div 32) % 64) * 33554432 + f.rs2 * 1048576 +
                                     f.rs1 * 32768 + ((imm \div 2) % 16) * 256 + 99
                [] f.name = "jal" -> ((imm \div 2) % 1024) * 2097152 + f.rd * 128 + 111
                [] f.name = "jalr" -> (imm % 2048) * 1048576 + regs + 103
                [] f.name = "fmin_s" -> 671088640 + f.rs2 * 1048576 + regs + 83
                [] f.name = "fsgnj_s" -> 536870912 + f.rs2 * 1048576 + regs + 83
                [] f.name = "sw" -> (imm \div 32) * 33554432 + f.rs2 * 1048576 +
                                    f.rs1 * 32768 + 8192 + (imm % 32) * 128 + 35
                [] f.name = "sd" -> (imm \div 32) * 33554432 + f.rs2 * 1048576 +
                                    f.rs1 * 32768 + 12288 + (imm % 32) * 128 + 35
                [] f.name = "lr_w" -> 268435456 + regs + 8192 + 47
                [] f.name = "sc_w" -> 402653184 + f.rs2 * 1048576 + regs + 8192 + 47
                [] f.name = "sc_d" -> 402653184 + f.rs2 * 1048576 + regs + 12288 + 47)

\* Decoder::decode: the DecodedInsn for the fetched instruction f at pc.
Decoder_decode(f, pc) ==
    [name |-> f.name, rd |-> f.rd, rs1 |-> f.rs1, rs2 |-> f.rs2, csr |-> f.csr,
     imm |-> f.imm, insn |-> Encoding(f), pc |-> pc]

\* DecodedInsn::operator(): the executor the decoder bound to the instruction.
exec(m, d) ==
    CASE d.name = "ecall" -> exec_ecall(m, d)
      [] d.name = "ebreak" -> exec_ebreak(m, d)
      [] d.name = "mret" -> exec_mret(m, d)
      [] d.name = "sret" -> exec_sret(m, d)
      [] d.name = "wfi" -> exec_wfi(m, d)
      [] d.name = "beq" -> exec_beq(m, d)
      [] d.name = "jal" -> exec_jal(m, d)
      [] d.name = "jalr" -> exec_jalr(m, d)
      [] d.name = "csrrw" -> exec_csrrw(m, d)
      [] d.name = "csrrs" -> exec_csrrs(m, d)
      [] d.name = "csrrc" -> exec_csrrc(m, d)
      [] d.name = "csrrwi" -> exec_csrrwi(m, d)
      [] d.name = "csrrsi" -> exec_csrrsi(m, d)
      [] d.name = "csrrci" -> exec_csrrci(m, d)
      [] d.name = "fsgnj_s" -> exec_fsgnj_s(m, d)
      [] d.name = "fmin_s" -> exec_fmin_s(m, d)
      [] d.name = "sw" -> exec_store(m, d, 4)
      [] d.name = "sd" -> exec_store(m, d, 8)
      [] d.name = "lr_w" -> exec_lr_w(m, d)
      [] d.name = "sc_w" -> exec_sc_w(m, d)
      [] d.name = "sc_d" -> exec_sc_d(m, d)

\* ------------------------------------------------------ execution engine

\* MCYCLE::advance and MINSTRET::advance
MCYCLE_advance(h) ==
    IF h.csrs.mcountinhibit \cap {0} # {} THEN h
    ELSE [h EXCEPT !.csrs.mcycle = @ + 1]

MINSTRET_advance(h) ==
    [h EXCEPT !.csrs.minstret =
                 IF ~h.csrs.increase_suppressed_ /\ h.csrs.mcountinhibit \cap {2} = {}
                 THEN @ + 1 ELSE @,
              !.csrs.increase_suppressed_ = FALSE]

\* ExecutionEngine::execute_once on the fetched instruction f.  The result
\* names how the cycle ended: "interrupt" and "exception" are the two ways
\* into the Trap handler, "retired" is the normal end, and "throw" is an
\* exception that is not a Trap leaving execute_once (f.name = "throw").
\* executed tells whether the cycle reached the call of the executor.
execute_once(m, f) ==
    The({The({
        IF it # NoTrap
        THEN [m |-> [m1 EXCEPT !.hart = handle_trap(m1.hart, it)],
              kind |-> "interrupt", trap |-> it, executed |-> FALSE]
        ELSE IF ft.trap # NoTrap
        THEN [m |-> [ft.m EXCEPT !.hart = handle_trap(ft.m.hart, ft.trap)],
              kind |-> "exception", trap |-> ft.trap, executed |-> FALSE]
        ELSE IF f.name = "throw"
        THEN [m |-> [ft.m EXCEPT !.hart.pc = Add64(ft.m.hart.pc, BitsOf(4))],
              kind |-> "throw", trap |-> NoTrap, executed |-> TRUE]
        ELSE The({The({
            IF r.trap # NoTrap
            THEN [m |-> [r.m EXCEPT !.hart = handle_trap(r.m.hart, r.trap)],
                  kind |-> "exception", trap |-> r.trap, executed |-> TRUE]
            ELSE [m |-> [r.m EXCEPT !.hart = MINSTRET_advance(r.m.hart)],
                  kind |-> "retired", trap |-> NoTrap, executed |-> TRUE]
            : r \in {exec(m2, d)}})
            : d \in {Decoder_decode(f, ft.m.hart.pc)},
              m2 \in {[ft.m EXCEPT !.hart.pc = Add64(ft.m.hart.pc, BitsOf(4))]}})
        : it \in {check_interrupts(m1.hart)}, ft \in {ifetch(m1)}})
        : m1 \in {[m EXCEPT !.hart = MCYCLE_advance(m.hart)]}})

\* The machine the engine's shared pointers reach.
machine == [hart |-> hart, mmu |-> mmu, dram |-> dram, clint |-> clint,
            engine |-> engine]

\* ---------------------------------------------------------------- bounds

\* The number of instruction cycles explored by each specification.
MaxCycles == 2
MaxCyclesMem == 3
MaxCyclesClint == 2
MaxCyclesEngine == 2
MaxCyclesHost == 3
MaxCyclesIrq == 1
MaxCyclesFp == 2

\* The number of MMU operations explored by the MMU specifications.
MaxOpsWalk == 1
MaxOpsFetch == 1
MaxOpsUnaligned == 1

\* The number of calls of Bus::add_device explored.
MaxAdds == 3

\* The number of register-file writes explored.
MaxRegWrites == 3

\* The largest mtime the steady clock is observed at.
MaxTime == 1

\* ------------------------------------------------------- worker and driver

\* One record of the history variable log per call of execute_once: the
\* machine before and after, how the cycle ended, the input and the Trap.
LogEntry(pre, f, r) ==
    [pre |-> pre, post |-> r.m, kind |-> r.kind, name |-> f.name, trap |-> r.trap,
     executed |-> r.executed, insn |-> f]

\* A worker that enters its loop without setting cpu_thread_running_.
CpuThreadBegin_without_running ==
    /\ worker.pc = "start"
    /\ worker' = [pc |-> "loop", i |-> 0]
    /\ UNCHANGED <<hart, mmu, dram, clint, engine, driver, log, bus, plic>>

\* ExecutionEngine::cpu_thread, up to the loop: cpu_thread_running_ is set
\* under cpu_mutex_ and cpu_cond_ is notified.
CpuThreadBegin ==
    /\ worker.pc = "start"
    /\ engine' = [engine EXCEPT !.cpu_thread_running_ = TRUE]
    /\ worker' = [pc |-> "loop", i |-> 0]
    /\ UNCHANGED <<hart, mmu, dram, clint, driver, log, bus, plic>>

\* The loop counter of cpu_thread incremented in a type wider than uint16_t.
cpu_thread_next_i_wide(i) == i + 1

\* ExecutionEngine::cpu_thread: i++ on the uint16_t loop counter.
cpu_thread_next_i(i) == (i + 1) % 65536

\* ExecutionEngine::cpu_thread, one iteration of the for loop on the fetched
\* instruction f: the two break tests, execute_once, and the catch (...).
CpuThreadLoop(f, limit) ==
    /\ worker.pc = "loop"
    /\ IF \/ engine.shutdown_from_guest_
          \/ worker.i = 0 /\ engine.shutdown_from_host_
       THEN /\ worker' = [worker EXCEPT !.pc = "exit"]
            /\ UNCHANGED <<hart, mmu, dram, clint, engine, driver, log, bus, plic>>
       ELSE /\ Len(log) < limit
            /\ \E r \in {execute_once(machine, f)} :
                  /\ hart' = r.m.hart
                  /\ mmu' = r.m.mmu
                  /\ dram' = r.m.dram
                  /\ clint' = r.m.clint
                  /\ engine' = IF r.kind = "throw"
                               THEN [r.m.engine EXCEPT !.cpu_thread_exception_ = TRUE,
                                                       !.shutdown_from_guest_ = TRUE]
                               ELSE r.m.engine
                  /\ worker' = IF r.kind = "throw"
                               THEN [worker EXCEPT !.pc = "exit"]
                               ELSE [worker EXCEPT !.i = cpu_thread_next_i(@)]
                  /\ log' = Append(log, LogEntry(machine, f, r))
                  /\ UNCHANGED <<driver, bus, plic>>

\* ExecutionEngine::cpu_thread after the loop: cpu_thread_running_ is cleared
\* under cpu_mutex_.
CpuThreadEnd ==
    /\ worker.pc = "exit"
    /\ engine' = [engine EXCEPT !.cpu_thread_running_ = FALSE]
    /\ worker' = [worker EXCEPT !.pc = "notify"]
    /\ UNCHANGED <<hart, mmu, dram, clint, driver, log, bus, plic>>

\* ExecutionEngine::cpu_thread: the last notify_all, and the thread function
\* returns.
CpuThreadReturn ==
    /\ worker.pc = "notify"
    /\ worker' = [worker EXCEPT !.pc = "done"]
    /\ UNCHANGED <<hart, mmu, dram, clint, engine, driver, log, bus, plic>>

\* ExecutionEngine::execute_until_halt from its entry to the condition wait:
\* cpu_mutex_ is held throughout, so the predicate is first evaluated before
\* the worker can set cpu_thread_running_.
ExecuteUntilHaltStart ==
    /\ driver.pc = "idle"
    /\ IF engine.cpu_thread_running_
       THEN /\ driver' = [driver EXCEPT !.pc = "returned"]
            /\ UNCHANGED <<engine, worker>>
       ELSE /\ engine' = [engine EXCEPT !.shutdown_from_guest_ = FALSE,
                                        !.cpu_thread_ = "joinable"]
            /\ worker' = [pc |-> "start", i |-> 0]
            /\ driver' = IF engine.shutdown_from_host_
                         THEN [driver EXCEPT !.pc = "returned"]
                         ELSE [driver EXCEPT !.pc = "wait"]
    /\ UNCHANGED <<hart, mmu, dram, clint, log, bus, plic>>

\* ExecutionEngine::execute_until_halt: the condition wait ends with the
\* predicate true and cpu_mutex_ reacquired; then the early return or the
\* entry into the driver loop.
ExecuteUntilHaltWake ==
    /\ driver.pc = "wait"
    /\ TRUE \in {engine.cpu_thread_running_, engine.shutdown_from_guest_,
                 engine.shutdown_from_host_}
    /\ driver' = IF ~engine.cpu_thread_running_
                 THEN [driver EXCEPT !.pc = "returned"]
                 ELSE [driver EXCEPT !.pc = "loop"]
    /\ UNCHANGED <<hart, mmu, dram, clint, engine, worker, log, bus, plic>>

\* ExecutionEngine::execute_until_halt, one iteration of the driver loop: the
\* test of cpu_thread_running_ under cpu_mutex_, then either the break and the
\* rethrow of cpu_thread_exception_, or the device tick (Clint::tick at clock
\* reading now).
ExecuteUntilHaltLoop(now) ==
    /\ driver.pc = "loop"
    /\ IF ~engine.cpu_thread_running_
       THEN /\ driver' = [pc |-> "returned",
                          rethrown |-> engine.cpu_thread_exception_]
            /\ UNCHANGED <<hart, clint>>
       ELSE /\ Geq64(now, clint.mtime_)
            /\ \E m1 \in {Clint_tick(machine, now)} :
                  /\ hart' = m1.hart
                  /\ clint' = m1.clint
            /\ UNCHANGED driver
    /\ UNCHANGED <<mmu, dram, engine, worker, log, bus, plic>>

\* ExecutionEngine::request_shutdown_from_host, called by the UI backend.
RequestShutdownFromHost ==
    /\ ~engine.shutdown_from_host_
    /\ engine' = request_shutdown_from_host(engine)
    /\ UNCHANGED <<hart, mmu, dram, clint, driver, worker, log, bus, plic>>

\* ExecutionEngine::~ExecutionEngine: the only join of cpu_thread_; it
\* returns once the thread function has returned.
Destructor ==
    /\ driver.pc = "returned"
    /\ engine.cpu_thread_ = "joinable"
    /\ worker.pc = "done"
    /\ engine' = [engine EXCEPT !.cpu_thread_ = "joined"]
    /\ UNCHANGED <<hart, mmu, dram, clint, driver, worker, log, bus, plic>>

\* ------------------------------------------------------------------ PLIC

\* The number of interrupt sources of the Plic (ndev); num_ids_ is one more.
PlicNdev == 2
num_ids_ == PlicNdev + 1

\* Plic::PRIO_BITS
PRIO_BITS == 4

\* Plic::Plic: the M-mode context, then the S-mode context; every priority,
\* level, enable, pending and claimed bit zero.
PlicContext(mmode) ==
    [mmode_ |-> mmode, priority_threshold |-> 0, enable |-> {}, pending |-> {},
     pending_priority |-> [id \in 0..(num_ids_ - 1) |-> 0], claimed |-> {}]

PlicReset ==
    [priority_ |-> [id \in 0..(num_ids_ - 1) |-> 0], level_ |-> {},
     contexts_ |-> <<PlicContext(TRUE), PlicContext(FALSE)>>]

\* Plic::context_best_pending: the ids are scanned upwards and a later one
\* wins only with a strictly higher pending priority; 0 unless the best
\* priority exceeds the threshold.
context_best_pending(ctx) ==
    LET cand == {id \in 0..(num_ids_ - 1) : id \in ctx.pending /\ id \notin ctx.claimed}
        best_id == IF cand = {} THEN 0
                   ELSE CHOOSE id \in cand :
                          \A j \in cand :
                             \/ ctx.pending_priority[j] < ctx.pending_priority[id]
                             \/ ctx.pending_priority[j] = ctx.pending_priority[id] /\ id <= j
        best_id_prio == IF cand = {} THEN 0 ELSE ctx.pending_priority[best_id]
    IN IF best_id_prio <= ctx.priority_threshold THEN 0 ELSE best_id

\* Plic::context_update on the pair s of the Plic and the hart.
context_update(s, c) ==
    [s EXCEPT !.hart = set_interrupt_pending(
                           s.hart,
                           IF s.plic.contexts_[c].mmode_ THEN MIP_MEIP ELSE MIP_SEIP,
                           context_best_pending(s.plic.contexts_[c]) # 0)]

\* Plic::set_interrupt_level: level_ is updated, then the first context that
\* has the source enabled is updated and the loop ends.
set_interrupt_level(s, id, lvl) ==
    IF id <= 0 \/ num_ids_ <= id THEN s
    ELSE LET s1 == [s EXCEPT !.plic.level_ = IF lvl THEN @ \cup {id} ELSE @ \ {id}]
             en == {c \in 1..Len(s.plic.contexts_) : id \in s.plic.contexts_[c].enable}
         IN IF en = {} THEN s1
            ELSE LET c == CHOOSE c \in en : \A c2 \in en : c <= c2
                 IN context_update(
                      IF lvl
                      THEN [s1 EXCEPT !.plic.contexts_[c].pending = @ \cup {id},
                                      !.plic.contexts_[c].pending_priority[id] =
                                          s.plic.priority_[id]]
                      ELSE [s1 EXCEPT !.plic.contexts_[c].pending = @ \ {id},
                                      !.plic.contexts_[c].pending_priority[id] = 0,
                                      !.plic.contexts_[c].claimed = @ \ {id}],
                      c)

\* Plic::context_claim: the Plic and the hart afterwards, and the id returned.
context_claim(s, c) ==
    LET best_id == context_best_pending(s.plic.contexts_[c])
        s1 == IF best_id # 0
              THEN [s EXCEPT !.plic.contexts_[c].claimed = @ \cup {best_id}]
              ELSE s
    IN [s |-> context_update(s1, c), id |-> best_id]

\* Plic::priority_write
priority_write(s, id, val) ==
    IF id > 0 /\ id < num_ids_
    THEN [s EXCEPT !.plic.priority_[id] = val % (2 ^ PRIO_BITS)]
    ELSE s

\* Plic::context_enable_write of the word of ids 0..31, val the set of the
\* ids whose bit is written 1.
context_enable_write(s, c, val) ==
    LET old_val == s.plic.contexts_[c].enable
        new_val == val \ {0}
        changed == (old_val \ new_val) \cup (new_val \ old_val)
        raised == {id \in changed : id \in new_val /\ id \in s.plic.level_}
        dropped == {id \in changed : id \notin new_val}
    IN context_update(
         [s EXCEPT !.plic.contexts_[c] =
             [@ EXCEPT !.enable = new_val,
                       !.pending = (@ \cup raised) \ dropped,
                       !.pending_priority =
                           [id \in 0..(num_ids_ - 1) |->
                               IF id \in raised THEN s.plic.priority_[id]
                               ELSE IF id \in dropped THEN 0 ELSE @[id]],
                       !.claimed = @ \ dropped]],
         c)

\* Plic::context_write at CONTEXT_THRESHOLD
context_write_threshold(s, c, val) ==
    context_update([s EXCEPT !.plic.contexts_[c].priority_threshold =
                                 val % (2 ^ PRIO_BITS)], c)

\* Plic::context_write at CONTEXT_CLAIM: the completion of source val.
context_write_claim(s, c, val) ==
    IF val < num_ids_ /\ val \in s.plic.contexts_[c].enable
    THEN context_update([s EXCEPT !.plic.contexts_[c].claimed = @ \ {val}], c)
    ELSE s

\* Plic::context_update for the M-mode (MEIP) or S-mode (SEIP) context, with
\* best_id the result of context_best_pending.
PlicContextUpdate(mmode, best_id) ==
    /\ hart' = set_interrupt_pending(hart, IF mmode THEN MIP_MEIP ELSE MIP_SEIP,
                                     best_id # 0)
    /\ UNCHANGED <<mmu, dram, clint, engine, driver, worker, log, bus, plic>>

\* ---------------------------------------------------------- construction

\* Hart::Hart: every CSR at its constructor value, priv = M, pc = reset_pc.
HartReset ==
    [pc |-> DRAM_BASE,
     gprs |-> [r \in 0..4 |-> {}],
     fprs |-> [r \in 0..1 |-> {}],
     priv |-> PRIV_M,
     csrs |-> [mstatus |-> {33, 35}, medeleg |-> {}, mideleg |-> {}, mip |-> {},
               mie |-> {}, mtvec |-> {}, mepc |-> {}, mcause |-> {}, mtval |-> {},
               stvec |-> {}, sepc |-> {}, scause |-> {}, stval |-> {},
               menvcfg |-> {}, satp |-> {}, stimecmp |-> {}, time |-> {},
               mcountinhibit |-> {}, mcycle |-> 0, minstret |-> 0,
               increase_suppressed_ |-> FALSE, mcounteren |-> {}, scounteren |-> {},
               fflags |-> {}, frm |-> {}]]

\* MMU::MMU, Dram::Dram and Clint::Clint
MMUReset == [reservation_address |-> {}, reservation_valid |-> FALSE]
DramReset == [o \in {} |-> 0]
ClintReset == [mtime_ |-> {}, mtimecmp_ |-> 0..63]

\* ExecutionEngine::ExecutionEngine
EngineReset ==
    [cpu_thread_running_ |-> FALSE, shutdown_from_guest_ |-> TRUE,
     shutdown_from_host_ |-> FALSE, shutdown_code_ |-> 0, shutdown_status_ |-> 0,
     cpu_thread_exception_ |-> FALSE, cpu_thread_ |-> "null"]

\* The engine once execute_until_halt has started the worker and entered the
\* driver loop.
EngineRunning ==
    [EngineReset EXCEPT !.cpu_thread_running_ = TRUE, !.shutdown_from_guest_ = FALSE,
                        !.cpu_thread_ = "joinable"]

\* An instruction as fetched: its name and operand fields.
Insn(name, rd, rs1, rs2, csr, imm) ==
    [name |-> name, rd |-> rd, rs1 |-> rs1, rs2 |-> rs2, csr |-> csr, imm |-> imm]

\* --------------------------------- specification of the privileged machine

\* The instructions the guest program offers in Spec.
Menu == {Insn("ecall", 0, 0, 0, 0, {}), Insn("ebreak", 0, 0, 0, 0, {}),
         Insn("mret", 0, 0, 0, 0, {}), Insn("sret", 0, 0, 0, 0, {}),
         Insn("wfi", 0, 0, 0, 0, {})}

\* The hart in a state M-mode software has configured with CSR writes and
\* left with xRET: a privilege, interrupt enables, delegation and trap
\* vectors, with at most one interrupt pending (raised by software, the PLIC
\* or the CLINT, whose mtimecmp_ then is 0).  The worker is in its loop and
\* the driver in its own.
Init ==
    /\ \E priv \in {PRIV_U, PRIV_S, PRIV_M},
          ie \in (SUBSET (MSTATUS_SIE \cup MSTATUS_MIE)) \cup
                 {MSTATUS_SIE \cup MSTATUS_TSR},
          mideleg \in {{}, {1, 5, 9}, {1, 5, 7, 9}},
          medeleg \in {{}, {3, 8}},
          mie \in {MIP_read_mask, MIP_MTIP \cup MIP_SEIP},
          mip \in {{}, MIP_SSIP, MIP_MSIP, MIP_MTIP, MIP_SEIP, MIP_MEIP} :
        /\ hart = [HartReset EXCEPT
                     !.priv = priv,
                     !.csrs.mstatus = @ \cup ie,
                     !.csrs.mideleg = mideleg,
                     !.csrs.medeleg = medeleg,
                     !.csrs.mie = mie,
                     !.csrs.mip = mip,
                     !.csrs.mtvec = DRAM_BASE,
                     !.csrs.stvec = DRAM_BASE \cup {3}]
        /\ clint = IF mip = MIP_MTIP
                   THEN [ClintReset EXCEPT !.mtimecmp_ = {}] ELSE ClintReset
    /\ mmu = MMUReset
    /\ dram = DramReset
    /\ engine = EngineRunning
    /\ driver = [pc |-> "loop", rethrown |-> FALSE]
    /\ worker = [pc |-> "loop", i |-> 0]
    /\ log = <<>>
    /\ bus = BusEmulator
    /\ plic = PlicReset

Next == \E f \in Menu : CpuThreadLoop(f, MaxCycles)

Spec == Init /\ [][Next]_vars

\* ------------------------------------------------- trap and return (C1)

\* Cycle i of the history took a trap and cycle i + 1, starting in the state
\* the trap left, retired the matching return instruction.
TrapThenReturn(i) ==
    /\ log[i].kind \in {"interrupt", "exception"}
    /\ log[i + 1].kind = "retired"
    /\ log[i + 1].pre = log[i].post
    /\ log[i + 1].name = IF log[i].post.hart.priv = PRIV_M THEN "mret" ELSE "sret"

\* The mstatus fields the dispatch of the trap of cycle i wrote.
TouchedFields(i) ==
    IF log[i].post.hart.priv = PRIV_M
    THEN MSTATUS_MIE \cup MSTATUS_MPIE \cup MSTATUS_MPP
    ELSE MSTATUS_SIE \cup MSTATUS_SPIE \cup MSTATUS_SPP

\* C1 as stated: a trap followed at once by the matching xRET leaves xIE,
\* xPIE and xPP of mstatus exactly as they were before the trap.
C1_TrapReturnRestoresAllFields ==
    \A i \in 1..(Len(log) - 1) :
        TrapThenReturn(i) =>
            log[i + 1].post.hart.csrs.mstatus \cap TouchedFields(i) =
            log[i].pre.hart.csrs.mstatus \cap TouchedFields(i)

\* C1, amended: a trap followed at once by the matching xRET, when that xRET
\* retires, leaves xIE as it was before the trap and the hart at its pre-trap
\* privilege, while xPIE is 1 and xPP is U whatever they were before.
C1_TrapReturnRestoresEnableAndPriv ==
    \A i \in 1..(Len(log) - 1) :
        TrapThenReturn(i) =>
            LET before == log[i].pre.hart
                after == log[i + 1].post.hart
                to_m == log[i].post.hart.priv = PRIV_M
                xIE == IF to_m THEN MSTATUS_MIE ELSE MSTATUS_SIE
                xPIE == IF to_m THEN MSTATUS_MPIE ELSE MSTATUS_SPIE
                xPP == IF to_m THEN MSTATUS_MPP ELSE MSTATUS_SPP
            IN /\ after.csrs.mstatus \cap xIE = before.csrs.mstatus \cap xIE
               /\ after.priv = before.priv
               /\ xPIE \subseteq after.csrs.mstatus
               /\ after.csrs.mstatus \cap xPP = {}

\* C1's case: a trap taken to M with MIE set, then MRET retired, and a state
\* in which the pre-trap MPIE was clear.
C1_Witness ==
    \E i \in 1..(Len(log) - 1) :
        /\ TrapThenReturn(i)
        /\ log[i].post.hart.priv = PRIV_M
        /\ MSTATUS_MIE \subseteq log[i].pre.hart.csrs.mstatus
        /\ log[i].pre.hart.csrs.mstatus \cap MSTATUS_MPIE = {}

\* ------------------------------------------- interrupt eligibility (C3)

\* The interrupt bits the stated rules make eligible at the start of a cycle
\* of hart h: pending and enabled in mie, and either not delegated with
\* priv < M or MIE set, or delegated with priv < S or SIE set.
EligibleBits(h) ==
    {b \in h.csrs.mip \cap h.csrs.mie :
        IF b \in h.csrs.mideleg
        THEN \/ h.priv < PRIV_S
             \/ h.priv = PRIV_S /\ MSTATUS_SIE \subseteq h.csrs.mstatus
        ELSE \/ h.priv < PRIV_M
             \/ h.priv = PRIV_M /\ MSTATUS_MIE \subseteq h.csrs.mstatus}

\* C3 as stated: a cycle raises an interrupt trap exactly when some bit of
\* mip AND mie is eligible under the M-pending or the S-pending rule.
C3_InterruptRaisedIffEligible ==
    \A i \in 1..Len(log) :
        (log[i].kind = "interrupt") <=> (EligibleBits(log[i].pre.hart) # {})

\* ------------------------------------------------ trap delegation (C4)

\* C4: every trap goes to S exactly when the hart was in U or S and the bit
\* of the cause code is set in medeleg (exception) or mideleg (interrupt),
\* and to M otherwise.
C4_TargetPrivilege ==
    \A i \in 1..Len(log) :
        log[i].kind \in {"interrupt", "exception"} =>
            LET h == log[i].pre.hart
                code == NatOf(log[i].trap.cause \ {63})
                deleg == IF 63 \in log[i].trap.cause
                         THEN h.csrs.mideleg ELSE h.csrs.medeleg
            IN log[i].post.hart.priv =
                   IF h.priv \in {PRIV_U, PRIV_S} /\ code \in deleg
                   THEN PRIV_S ELSE PRIV_M

\* C4's case: a delegated interrupt taken in S-mode goes to S.
C4_Witness ==
    \E i \in 1..Len(log) :
        /\ log[i].kind = "interrupt"
        /\ log[i].pre.hart.priv = PRIV_S
        /\ NatOf(log[i].trap.cause \ {63}) \in log[i].pre.hart.csrs.mideleg
        /\ log[i].post.hart.priv = PRIV_S

\* --------------------------------------- interrupts preempt fetch (C5)

\* C5 as stated: a cycle that starts with an interrupt eligible under the
\* stated rules takes the interrupt trap before fetch: nothing is executed,
\* xepc of the handling mode holds the pc of the instruction not executed,
\* and minstret does not advance.
C5_EligibleInterruptPreemptsFetch ==
    \A i \in 1..Len(log) :
        EligibleBits(log[i].pre.hart) # {} =>
            LET before == log[i].pre.hart
                after == log[i].post.hart
            IN /\ log[i].kind = "interrupt"
               /\ ~log[i].executed
               /\ (IF after.priv = PRIV_M THEN after.csrs.mepc ELSE after.csrs.sepc)
                      = before.pc
               /\ after.csrs.minstret = before.csrs.minstret

\* ------------------------------------------------ delegated ECALL (C7)

\* C7: ECALL executed in U-mode at PC with medeleg[8] set leaves pc at the
\* stvec base, scause = 8, sepc = PC, SPP = U, SPIE = the old SIE, SIE = 0
\* and priv = S.
C7_DelegatedEcallFromU ==
    \A i \in 1..Len(log) :
        (/\ log[i].name = "ecall" /\ log[i].executed
         /\ log[i].pre.hart.priv = PRIV_U
         /\ 8 \in log[i].pre.hart.csrs.medeleg) =>
            LET before == log[i].pre.hart
                after == log[i].post.hart
            IN /\ after.pc = before.csrs.stvec \ {0, 1}
               /\ after.csrs.scause = BitsOf(8)
               /\ after.csrs.sepc = before.pc
               /\ after.csrs.mstatus \cap MSTATUS_SPP = {}
               /\ (MSTATUS_SPIE \subseteq after.csrs.mstatus) <=>
                      (MSTATUS_SIE \subseteq before.csrs.mstatus)
               /\ after.csrs.mstatus \cap MSTATUS_SIE = {}
               /\ after.priv = PRIV_S

\* C7's case: ECALL executed in U-mode with medeleg[8] and SIE set.
C7_Witness ==
    \E i \in 1..Len(log) :
        /\ log[i].name = "ecall" /\ log[i].executed
        /\ log[i].pre.hart.priv = PRIV_U
        /\ 8 \in log[i].pre.hart.csrs.medeleg
        /\ MSTATUS_SIE \subseteq log[i].pre.hart.csrs.mstatus
        /\ log[i].post.hart.priv = PRIV_S

\* ------------------------------------------ specification of the CLINT

\* The guest's registers in SpecClint: x1 is the address of mtimecmp, x3 the
\* address of msip, x2 the value 1.
ClintRegs ==
    [r \in 0..4 |->
        CASE r = 0 -> {}
          [] r = 1 -> BitsOf(Clint_DEFAULT_BASE + MTIMECMP_OFFSET)
          [] r = 2 -> {0}
          [] r = 3 -> BitsOf(Clint_DEFAULT_BASE + MSIP_OFFSET)
          [] r = 4 -> {}]

\* SD x2, 0(x1) writes mtimecmp, SW x2, 0(x3) writes msip, WFI does nothing.
MenuClint == {Insn("sd", 0, 1, 2, 0, {}), Insn("sw", 0, 3, 2, 0, {}),
              Insn("wfi", 0, 0, 0, 0, {})}

\* What the boot code chose before the first cycle of SpecClint: mstatus.MIE,
\* mie, mideleg and the mtvec mode.  Every delegation and mode with all
\* machine interrupts enabled, and the two settings with one enable missing.
ClintBoot ==
    {[ie |-> MSTATUS_MIE, mie |-> MIP_MSIP \cup MIP_MTIP \cup MIP_MEIP,
      mideleg |-> d, mode |-> md] : d \in {{}, {7}, {11}}, md \in {{}, {0}}}
    \cup {[ie |-> {}, mie |-> MIP_MSIP \cup MIP_MTIP \cup MIP_MEIP,
            mideleg |-> {}, mode |-> {}],
           [ie |-> MSTATUS_MIE, mie |-> MIP_MSIP \cup MIP_MEIP,
            mideleg |-> {}, mode |-> {}]}

\* The hart in M-mode after its boot code; the CLINT as constructed.
InitClint ==
    /\ \E b \in ClintBoot :
        hart = [HartReset EXCEPT
                  !.gprs = ClintRegs,
                  !.csrs.mstatus = @ \cup b.ie,
                  !.csrs.mideleg = b.mideleg,
                  !.csrs.mie = b.mie,
                  !.csrs.mtvec = DRAM_BASE \cup b.mode]
    /\ mmu = MMUReset
    /\ dram = DramReset
    /\ clint = ClintReset
    /\ engine = EngineRunning
    /\ driver = [pc |-> "loop", rethrown |-> FALSE]
    /\ worker = [pc |-> "loop", i |-> 0]
    /\ log = <<>>
    /\ bus = BusEmulator
    /\ plic = PlicReset

NextClint ==
    \/ \E f \in MenuClint : CpuThreadLoop(f, MaxCyclesClint)
    \/ \E now \in {BitsOf(t) : t \in 0..MaxTime} : ExecuteUntilHaltLoop(now)
    \/ \E best_id \in {0, 1} : PlicContextUpdate(TRUE, best_id)

SpecClint == InitClint /\ [][NextClint]_vars

\* --------------------------------------------- the timer interrupt (C6)

\* Cycle i starts with mtime >= mtimecmp in the CLINT and the hart in M-mode
\* with mie.MTIE = 1 and mstatus.MIE = 1.
TimerDue(i) ==
    LET pre == log[i].pre
    IN /\ Geq64(pre.clint.mtime_, pre.clint.mtimecmp_)
       /\ pre.hart.priv = PRIV_M
       /\ MIP_MTIP \subseteq pre.hart.csrs.mie
       /\ MSTATUS_MIE \subseteq pre.hart.csrs.mstatus

\* Cycle i took the machine timer interrupt: nothing was executed, mcause is
\* (1 << 63) | 7 and pc is the mtvec base or, in vectored mode, its entry 7.
TookTimerTrap(i) ==
    LET pre == log[i].pre.hart
        post == log[i].post.hart
        base == pre.csrs.mtvec \ {0, 1}
    IN /\ log[i].kind = "interrupt" /\ ~log[i].executed
       /\ post.csrs.mcause = MachineTimerInterrupt
       /\ post.priv = PRIV_M
       /\ post.pc \in {base, Add64(base, BitsOf(28))}

\* C6 as stated: whenever mtime >= mtimecmp with the hart in M-mode,
\* mie.MTIE = 1 and mstatus.MIE = 1, the next cycle traps to mtvec with
\* mcause = (1 << 63) | 7 instead of executing an instruction.
C6_TimerDueTrapsWithCause7 ==
    \A i \in 1..Len(log) : TimerDue(i) => TookTimerTrap(i)

\* C6, amended: the same, provided the timer interrupt is not delegated
\* (mideleg bit 7 clear) and no machine external or software interrupt is
\* pending, enabled and not delegated; the trap saves pc in mepc, leaves
\* minstret alone, and lands on the mtvec base in direct mode and on
\* base + 4 * 7 in vectored mode.
C6_TimerDueTrapsUnlessOutranked ==
    \A i \in 1..Len(log) :
        LET pre == log[i].pre.hart
            post == log[i].post.hart
            m_pending == (pre.csrs.mip \cap pre.csrs.mie) \ pre.csrs.mideleg
            base == pre.csrs.mtvec \ {0, 1}
        IN (/\ TimerDue(i)
            /\ 7 \notin pre.csrs.mideleg
            /\ m_pending \cap (MIP_MEIP \cup MIP_MSIP) = {})
           => /\ TookTimerTrap(i)
              /\ post.csrs.mepc = pre.pc
              /\ post.csrs.minstret = pre.csrs.minstret
              /\ post.pc = IF pre.csrs.mtvec \cap {0, 1} = {0}
                           THEN Add64(base, BitsOf(28)) ELSE base

\* C6's case: the guest wrote mtimecmp, the CLINT's tick reached it, and the
\* next cycle took the timer interrupt through a vectored mtvec.
C6_Witness ==
    \E i \in 1..Len(log) :
        /\ TimerDue(i) /\ TookTimerTrap(i)
        /\ log[i].pre.clint.mtimecmp_ = {0}
        /\ log[i].pre.clint.mtime_ = {0}
        /\ log[i].pre.hart.csrs.mtvec \cap {0, 1} = {0}
        /\ log[i].post.hart.pc = Add64(DRAM_BASE, BitsOf(28))

\* ------------------------------------- specification of the memory path

\* The guest's registers in SpecMem: x1 is the address a every instruction of
\* the menu uses, x2 and x4 are the values v and w it stores, x3 receives the
\* results of LR.W and SC.W.
MemRegs(a, v, w) ==
    [r \in 0..4 |->
        CASE r = 0 -> {}
          [] r = 1 -> a
          [] r = 2 -> v
          [] r = 3 -> {}
          [] r = 4 -> w]

\* LR.W x3, (x1); SW x2, 0(x1); SD x2, 0(x1); SC.W x3, x4, (x1).
MenuMem == {Insn("lr_w", 3, 1, 0, 0, {}), Insn("sw", 0, 1, 2, 0, {}),
            Insn("sd", 0, 1, 2, 0, {}), Insn("sc_w", 3, 1, 4, 0, {})}

\* The hart as constructed (M-mode, satp Bare) with its registers loaded:
\* the address is in DRAM, the SiFive-test register, or owned by nobody.
InitMem ==
    /\ \E a \in {DRAM_BASE, DRAM_BASE \cup {3}, BitsOf(SiFiveTest_DEFAULT_BASE), {}},
          v \in {BitsOf(Status_PASS), BitsOf(Status_FAIL) \cup {16}, {0}} :
        hart = [HartReset EXCEPT !.gprs = MemRegs(a, v, {1})]
    /\ mmu = MMUReset
    /\ dram = DramReset
    /\ clint = ClintReset
    /\ engine = EngineRunning
    /\ driver = [pc |-> "loop", rethrown |-> FALSE]
    /\ worker = [pc |-> "loop", i |-> 0]
    /\ log = <<>>
    /\ bus = BusEmulator
    /\ plic = PlicReset

NextMem == \E f \in MenuMem : CpuThreadLoop(f, MaxCyclesMem)

SpecMem == InitMem /\ [][NextMem]_vars

\* ------------------------------------------- LR.W, store, SC.W (C2)

\* The address the instructions of cycle i use: R[x1], with immediate 0.
AccessAddr(i) == R_read(log[i].pre.hart, 1)

\* C2: after LR.W at A, a store to A and then SC.W to A (no other LR or SC
\* in between), the SC.W writes 1 to rd and leaves memory as it found it.
C2_StoreInvalidatesReservation ==
    \A i, j, k \in 1..Len(log) :
        (/\ i < j /\ j < k
         /\ log[i].name = "lr_w" /\ log[i].kind = "retired"
         /\ log[j].name \in {"sw", "sd"} /\ log[j].kind = "retired"
         /\ log[k].name = "sc_w" /\ log[k].executed
         /\ AccessAddr(i) = AccessAddr(j) /\ AccessAddr(j) = AccessAddr(k)
         /\ \A n \in (i + 1)..(k - 1) : log[n].name \notin {"lr_w", "sc_w"})
        => /\ R_read(log[k].post.hart, 3) = {0}
           /\ log[k].post.dram = log[k].pre.dram

\* ------------------------------------- the SiFive-test register (C8)

\* C8: a retired SW of (0 << 16) | 0x5555 to 0x0010_0000 leaves the engine
\* with shutdown requested by the guest, status PASS and code 0.
C8_PassWordHaltsEngine ==
    \A i \in 1..Len(log) :
        (/\ log[i].name = "sw" /\ log[i].kind = "retired"
         /\ AccessAddr(i) = BitsOf(SiFiveTest_DEFAULT_BASE)
         /\ R_read(log[i].pre.hart, 2) = BitsOf(Status_PASS))
        => /\ log[i].post.engine.shutdown_from_guest_
           /\ log[i].post.engine.shutdown_status_ = Status_PASS
           /\ log[i].post.engine.shutdown_code_ = 0

\* ------------------------------- specification of the driver and worker

\* SW x2, 0(x1) with x1 the SiFive-test register and x2 the PASS word, WFI,
\* and an instruction whose execution throws something that is not a Trap.
MenuEngine == {Insn("wfi", 0, 0, 0, 0, {}), Insn("throw", 0, 0, 0, 0, {}),
               Insn("sw", 0, 1, 2, 0, {})}

\* Everything as constructed; execute_until_halt has not been called and no
\* worker thread exists.
InitEngine ==
    /\ hart = [HartReset EXCEPT
                 !.gprs = MemRegs(BitsOf(SiFiveTest_DEFAULT_BASE),
                                  BitsOf(Status_PASS), {})]
    /\ mmu = MMUReset
    /\ dram = DramReset
    /\ clint = ClintReset
    /\ engine = EngineReset
    /\ driver = [pc |-> "idle", rethrown |-> FALSE]
    /\ worker = [pc |-> "none", i |-> 0]
    /\ log = <<>>
    /\ bus = BusEmulator
    /\ plic = PlicReset

NextEngine ==
    \/ ExecuteUntilHaltStart
    \/ ExecuteUntilHaltWake
    \/ \E now \in {BitsOf(t) : t \in 0..MaxTime} : ExecuteUntilHaltLoop(now)
    \/ CpuThreadBegin
    \/ \E f \in MenuEngine : CpuThreadLoop(f, MaxCyclesEngine)
    \/ CpuThreadEnd
    \/ CpuThreadReturn
    \/ RequestShutdownFromHost
    \/ Destructor

SpecEngine == InitEngine /\ [][NextEngine]_vars

\* ------------------------------------ the worker's exception (C9)

\* C9: once the worker has captured an exception that is not a Trap and
\* execute_until_halt has returned, execute_until_halt has rethrown it, and
\* the worker had left its loop and cleared cpu_thread_running_ by then.
C9_CapturedExceptionIsRethrown ==
    (driver.pc = "returned" /\ engine.cpu_thread_exception_)
        => /\ driver.rethrown
           /\ worker.pc \in {"notify", "done"}

\* ------------------------------------------ the worker's join (C10)

\* C10: once execute_until_halt has started a worker and returned, the
\* worker thread has terminated and has been joined.
C10_WorkerJoinedAtReturn ==
    (driver.pc = "returned" /\ engine.cpu_thread_ # "null")
        => /\ worker.pc = "done"
           /\ engine.cpu_thread_ = "joined"

\* ------------------------------ specification of the host's shutdown

\* The worker deep in its loop, its uint16_t counter i about to wrap or just
\* wrapped, after as many cycles of a guest that spins at DRAM_BASE; the
\* driver still in its condition wait or already in its loop.
InitHost ==
    /\ \E i \in {0, 1, 65534, 65535}, dpc \in {"wait", "loop"} :
        /\ hart = [HartReset EXCEPT !.csrs.mcycle = i, !.csrs.minstret = i]
        /\ worker = [pc |-> "loop", i |-> i]
        /\ driver = [pc |-> dpc, rethrown |-> FALSE]
    /\ mmu = MMUReset
    /\ dram = DramReset
    /\ clint = ClintReset
    /\ engine = EngineRunning
    /\ log = <<>>
    /\ bus = BusEmulator
    /\ plic = PlicReset

NextHost ==
    \/ CpuThreadLoop(Insn("wfi", 0, 0, 0, 0, {}), MaxCyclesHost)
    \/ CpuThreadEnd
    \/ CpuThreadReturn
    \/ ExecuteUntilHaltWake
    \/ \E now \in {BitsOf(t) : t \in 0..MaxTime} : ExecuteUntilHaltLoop(now)
    \/ RequestShutdownFromHost
    \/ Destructor

\* The scheduler runs the worker's epilogue and the driver: the condition
\* wait ends once its predicate holds, and the driver loop yields and
\* comes back.
SpecHost ==
    /\ InitHost /\ [][NextHost]_vars
    /\ WF_vars(CpuThreadEnd)
    /\ WF_vars(ExecuteUntilHaltWake)
    /\ WF_vars(\E now \in {BitsOf(t) : t \in 0..MaxTime} : ExecuteUntilHaltLoop(now))

\* ------------------------------------- host-initiated shutdown (C11)

\* The number of cycles the worker executes before it next tests
\* shutdown_from_host_, when its counter is i.
CyclesToHostCheck(i) == (65536 - i) % 65536

\* A step of the worker's loop while shutdown_from_host_ is set: with no
\* cycle left before the test it leaves the loop without executing, and
\* otherwise a cycle that stays in the loop leaves one cycle fewer.
HostFlagStep ==
    (engine.shutdown_from_host_ /\ worker.pc = "loop" /\ worker' # worker)
        => IF CyclesToHostCheck(worker.i) = 0
           THEN worker'.pc = "exit" /\ log' = log
           ELSE worker'.pc = "loop" =>
                    CyclesToHostCheck(worker'.i) = CyclesToHostCheck(worker.i) - 1

\* C11: once request_shutdown_from_host has set the flag while the worker
\* runs, the worker tests it every N = 65536 cycles (whenever its uint16_t
\* counter is 0), so it leaves its loop within at most N further cycles,
\* and execute_until_halt then returns.
C11_HostShutdownLeavesLoopWithinN ==
    /\ [][HostFlagStep]_vars
    /\ (engine.shutdown_from_host_ /\ worker.pc = "exit") ~> (driver.pc = "returned")

\* C11's case: the host asked for the shutdown before the cycle on which
\* the counter wrapped from 65535 to 0; the worker left its loop right
\* after that cycle and execute_until_halt has returned.
C11_Witness ==
    /\ Len(log) >= 1
    /\ log[Len(log)].pre.engine.shutdown_from_host_
    /\ log[Len(log)].pre.hart.csrs.mcycle = 65535
    /\ worker.i = 0 /\ worker.pc \in {"notify", "done"}
    /\ driver.pc = "returned"

\* ------------------------------------ guest-initiated shutdown (C12)

\* Cycle i retired a SW to the SiFive-test register whose low halfword is
\* one of the three status words: the write that asks for the shutdown.
ShutdownWrite(i) ==
    /\ log[i].name = "sw" /\ log[i].kind = "retired"
    /\ AccessAddr(i) = BitsOf(SiFiveTest_DEFAULT_BASE)
    /\ NatOf(R_read(log[i].pre.hart, 2) \cap (0..15))
           \in {Status_FAIL, Status_PASS, Status_RESET}

MenuIrq == {Insn("wfi", 0, 0, 0, 0, {}), Insn("ecall", 0, 0, 0, 0, {})}

\* The hart as in Init, but with any set of the six standard interrupts
\* pending at once (the CLINT's mtimecmp_ is 0 when MTIP is among them).
InitIrq ==
    /\ \E priv \in {PRIV_U, PRIV_S, PRIV_M},
          ie \in SUBSET (MSTATUS_SIE \cup MSTATUS_MIE),
          mideleg \in {{}, {1, 5, 9}, {1, 5, 7, 9}},
          mie \in {MIP_read_mask, MIP_MTIP \cup MIP_SEIP \cup MIP_SSIP},
          mip \in SUBSET (MIP_SSIP \cup MIP_MSIP \cup MIP_STIP \cup
                          MIP_MTIP \cup MIP_SEIP \cup MIP_MEIP) :
        /\ hart = [HartReset EXCEPT
                     !.priv = priv,
                     !.csrs.mstatus = @ \cup ie,
                     !.csrs.mideleg = mideleg,
                     !.csrs.mie = mie,
                     !.csrs.mip = mip,
                     !.csrs.mtvec = DRAM_BASE,
                     !.csrs.stvec = DRAM_BASE \cup {3}]
        /\ clint = IF MIP_MTIP \subseteq mip
                   THEN [ClintReset EXCEPT !.mtimecmp_ = {}] ELSE ClintReset
    /\ mmu = MMUReset
    /\ dram = DramReset
    /\ engine = EngineRunning
    /\ driver = [pc |-> "loop", rethrown |-> FALSE]
    /\ worker = [pc |-> "loop", i |-> 0]
    /\ log = <<>>
    /\ bus = BusEmulator
    /\ plic = PlicReset

NextIrq == \E f \in MenuIrq : CpuThreadLoop(f, MaxCyclesIrq)

SpecIrq == InitIrq /\ [][NextIrq]_vars

\* The M-level interrupts (MEI, MSI, MTI, not delegated) that are pending,
\* enabled in mie and globally enabled for hart h.
MLevelEligible(h) ==
    {b \in (h.csrs.mip \cap h.csrs.mie) \ h.csrs.mideleg :
        /\ b \in MIP_MEIP \cup MIP_MSIP \cup MIP_MTIP
        /\ \/ h.priv < PRIV_M
           \/ h.priv = PRIV_M /\ MSTATUS_MIE \subseteq h.csrs.mstatus}

\* The S-level interrupts (SEI, SSI, STI, delegated) that are pending,
\* enabled in mie and globally enabled for hart h.
SLevelEligible(h) ==
    {b \in h.csrs.mip \cap h.csrs.mie \cap h.csrs.mideleg :
        /\ b \in MIP_SEIP \cup MIP_SSIP \cup MIP_STIP
        /\ \/ h.priv < PRIV_S
           \/ h.priv = PRIV_S /\ MSTATUS_SIE \subseteq h.csrs.mstatus}

\* The stated order of choice: MEI, MSI, MTI, then SEI, SSI, STI.
PriorityOrder ==
    <<MachineExternalInterrupt, MachineSoftwareInterrupt, MachineTimerInterrupt,
      SupervisorExternalInterrupt, SupervisorSoftwareInterrupt,
      SupervisorTimerInterrupt>>

\* The first cause of PriorityOrder whose mip bit is in the set bits.
FirstInOrder(bits) ==
    PriorityOrder[CHOOSE k \in 1..Len(PriorityOrder) :
        /\ NatOf(PriorityOrder[k] \ {63}) \in bits
        /\ \A j \in 1..(k - 1) : NatOf(PriorityOrder[j] \ {63}) \notin bits]

PteSelfPointer == {0, 29}
PteLeaf1 == {0, 1, 2, 3, 6, 7, 10, 29}
PteLeaf1NoAD == {0, 1, 2, 3, 10, 29}
PteLeaf1User == {0, 1, 2, 3, 4, 6, 7, 10, 29}
PteLeaf1Invalid == {1, 2, 3, 10, 29}
PteLeaf1WriteOnly == {0, 2, 6, 10, 29}
PteLeafSelf == {0, 1, 2, 3, 29}
PteLeaf2 == {0, 1, 2, 3, 6, 7, 11, 29}

\* satp values: Sv39 with the root table at DRAM_BASE, Sv39 with the root at
\* address 0, and Sv48.
SatpSv39 == {63, 19}
SatpSv39NoRoot == {63}
SatpSv48 == {63, 60}

\* The DRAM with the three entries slot0..slot2 at the start of the table
\* page, data in the first data page, and the halfwords lo and hi on either
\* side of the boundary between the two data pages.
DramWith(slot0, slot1, slot2, lo, hi) ==
    Dram_write(
     Dram_write(
      Dram_write(
       Dram_write(
        Dram_write(
         Dram_write(DramReset, DRAM_BASE, 8, slot0),
         Add64(DRAM_BASE, BitsOf(8)), 8, slot1),
        Add64(DRAM_BASE, BitsOf(16)), 8, slot2),
       Add64(DRAM_BASE, BitsOf(4096)), 8, BitsOf(67305985) \cup Shl(BitsOf(134678021), 32)),
      Add64(DRAM_BASE, BitsOf(8190)), 2, lo),
     Add64(DRAM_BASE, BitsOf(8192)), 2, hi)

\* The machine with a hart in privilege priv whose mstatus has the bits mst
\* on top of the reset value, and the given satp, menvcfg and pc.
MmuMachine(priv, mst, satp, menvcfg, pc, d) ==
    /\ hart = [HartReset EXCEPT !.priv = priv, !.pc = pc,
                                !.csrs.mstatus = @ \cup mst,
                                !.csrs.satp = satp,
                                !.csrs.menvcfg = menvcfg,
                                !.csrs.mtvec = DRAM_BASE,
                                !.csrs.stvec = DRAM_BASE]
    /\ mmu = MMUReset
    /\ dram = d
    /\ clint = ClintReset
    /\ engine = EngineRunning
    /\ driver = [pc |-> "loop", rethrown |-> FALSE]
    /\ worker = [pc |-> "loop", i |-> 0]
    /\ log = <<>>
    /\ bus = BusEmulator
    /\ plic = PlicReset

\* satp.MODE is Bare or Sv39 whenever an access can reach the walk.
SatpUsable(priv, mst, satp) ==
    satp = SatpSv48 => (priv = PRIV_M /\ mst \cap MSTATUS_MPRV = {})

InitWalk ==
    \E priv \in {PRIV_U, PRIV_S, PRIV_M},
       mst \in {{}, MSTATUS_MPRV \cup {11}, MSTATUS_SUM \cup MSTATUS_MXR},
       satp \in {{}, SatpSv39, SatpSv39NoRoot, SatpSv48},
       menvcfg \in {{}, MENVCFG_ADUE},
       slot1 \in {PteLeaf1, PteLeaf1NoAD, PteLeaf1User, PteLeaf1Invalid,
                  PteLeaf1WriteOnly, PteLeafSelf} :
        /\ SatpUsable(priv, mst, satp)
        /\ MmuMachine(priv, mst, satp, menvcfg, DRAM_BASE,
                      DramWith(PteSelfPointer, slot1, PteLeaf2, {}, {}))

\* One call of MMU::translate, as MMU::read, MMU::write and MMU::ifetch make
\* it: the machine takes the PTE write-back, the history the result.
Translate(vaddr, type) ==
    /\ Len(log) < MaxOpsWalk
    /\ \E t \in {translate(machine, hart.pc, vaddr, type)} :
          /\ hart' = t.m.hart
          /\ dram' = t.m.dram
          /\ clint' = t.m.clint
          /\ log' = Append(log, [pre |-> machine, post |-> t.m, kind |-> "translate",
                                 vaddr |-> vaddr, type |-> type,
                                 trap |-> t.trap, paddr |-> t.paddr])
          /\ UNCHANGED <<mmu, engine, driver, worker, bus, plic>>

\* The virtual addresses translated: pages 0, 1 and 2 of the first 2 MiB, the
\* second 2 MiB, the second 1 GiB, and a non-canonical address.
WalkAddrs == {{}, {12, 3}, {13}, {21, 4}, {30, 12}, {38}}

NextWalk == \E vaddr \in WalkAddrs, type \in {"Fetch", "Load", "Store"} :
                Translate(vaddr, type)

SpecWalk == InitWalk /\ [][NextWalk]_vars

\* The PTEs the walk for vaddr reads in machine m from level i and table a
\* on: it follows valid pointers and stops at a leaf, a faulty PTE, a bus
\* miss or below level 0.
RECURSIVE WalkPtes(_, _, _, _)
WalkPtes(m, vaddr, i, a) ==
    IF i < 0 THEN {}
    ELSE LET r == Bus_read(m, pte_addr_of(vaddr, i, a), 8)
         IN IF ~r.has_value THEN {}
            ELSE IF /\ r.value \cap PTE_V # {}
                    /\ r.value \cap (PTE_R \cup PTE_W \cup PTE_X) = {}
                    /\ Shr(r.value, 54) = {}
                    /\ r.value \cap (PTE_D \cup PTE_A \cup PTE_U) = {}
            THEN {r.value} \cup WalkPtes(m, vaddr, i - 1,
                                         Shl(Shr(r.value, 10) \cap (0..43), PGSHIFT))
            ELSE {r.value}

\* The privilege a translation of the given type is made with.
EffectivePriv(h, type) ==
    IF type # "Fetch" /\ h.csrs.mstatus \cap MSTATUS_MPRV # {}
    THEN NatOf(Shr(h.csrs.mstatus \cap MSTATUS_MPP, MPP_SHIFT))
    ELSE h.priv

\* Entry i of the history is a translation that walked the Sv39 tables and
\* read a PTE with V = 0, or with R = 0 and W = 1.
WalkMetBadPte(i) ==
    /\ log[i].kind = "translate"
    /\ EffectivePriv(log[i].pre.hart, log[i].type) # PRIV_M
    /\ NatOf(Shr(log[i].pre.hart.csrs.satp, 60)) = SATP_Sv39
    /\ (log[i].vaddr \cap (38..63)) \in {{}, 38..63}
    /\ \E pte \in WalkPtes(log[i].pre, log[i].vaddr, LEVELS - 1,
                           Shl(log[i].pre.hart.csrs.satp \cap (0..43), PGSHIFT)) :
          \/ pte \cap PTE_V = {}
          \/ pte \cap PTE_R = {} /\ pte \cap PTE_W # {}

\* C14: every Sv39 walk that reads a PTE with V = 0, or with R = 0 and W = 1,
\* raises the page fault of its access type for the address translated, and
\* leaves memory, the page tables included, as it was.
C14_BadPteFaultsBeforeWriteBack ==
    \A i \in 1..Len(log) :
        WalkMetBadPte(i) =>
            /\ log[i].trap = Trap(log[i].pre.hart.pc,
                                  CASE log[i].type = "Fetch" -> InstructionPageFault
                                    [] log[i].type = "Load" -> LoadPageFault
                                    [] log[i].type = "Store" -> StoreAMOPageFault,
                                  log[i].vaddr)
            /\ log[i].post.dram = log[i].pre.dram

\* C14's case: a store walks through a valid pointer to a leaf with V = 0
\* while A/D updating is on, and faults.
C14_Witness ==
    \E i \in 1..Len(log) :
        /\ WalkMetBadPte(i)
        /\ log[i].type = "Store"
        /\ log[i].pre.hart.csrs.menvcfg \cap MENVCFG_ADUE # {}
        /\ PteSelfPointer \in WalkPtes(log[i].pre, log[i].vaddr, LEVELS - 1,
                                       Shl(log[i].pre.hart.csrs.satp \cap (0..43), PGSHIFT))
        /\ log[i].trap # NoTrap

\* C17: a translation made while the hart is in M-mode and mstatus.MPRV is 0
\* returns the virtual address, throws nothing and writes nothing, whatever
\* satp holds.
C17_MachineModeIsIdentity ==
    \A i \in 1..Len(log) :
        (/\ log[i].kind = "translate"
         /\ log[i].pre.hart.priv = PRIV_M
         /\ log[i].pre.hart.csrs.mstatus \cap MSTATUS_MPRV = {})
        => /\ log[i].trap = NoTrap
           /\ log[i].paddr = log[i].vaddr
           /\ log[i].post = log[i].pre

\* C17's case: an M-mode translation with MPRV = 0 and satp in Sv39 mode.
C17_Witness ==
    \E i \in 1..Len(log) :
        /\ log[i].kind = "translate"
        /\ log[i].pre.hart.priv = PRIV_M
        /\ log[i].pre.hart.csrs.mstatus \cap MSTATUS_MPRV = {}
        /\ log[i].pre.hart.csrs.satp = SatpSv39
        /\ log[i].vaddr = {13}
        /\ log[i].paddr = {13}

\* ------------------------------------------- fetch across two pages (C15)

\* The fetch stage of ExecutionEngine::execute_once: MMU::ifetch, and
\* Hart::handle_trap for the Trap it throws.
Fetch ==
    /\ Len(log) < MaxOpsFetch
    /\ \E r \in {ifetch(machine)} :
          \E post \in {IF r.trap # NoTrap
                       THEN [r.m EXCEPT !.hart = handle_trap(r.m.hart, r.trap)]
                       ELSE r.m} :
             /\ hart' = post.hart
             /\ dram' = post.dram
             /\ clint' = post.clint
             /\ log' = Append(log, [pre |-> machine, post |-> post, kind |-> "ifetch",
                                    trap |-> r.trap, insn |-> r.insn, len |-> r.len])
             /\ UNCHANGED <<mmu, engine, driver, worker, bus, plic>>

\* The pc is in the last two bytes of virtual page 1 or of the first data
\* page, or elsewhere in them; the halfword at the end of the first data page
\* is the low half of the 4-byte ecall, mret or a0 load, or a compressed
\* instruction; virtual page 2 is mapped to the second data page or not at
\* all.
InitFetch ==
    \E priv \in {PRIV_U, PRIV_S, PRIV_M},
       satp \in {{}, SatpSv39},
       menvcfg \in {{}, MENVCFG_ADUE},
       slot1 \in {PteLeaf1, PteLeaf1NoAD, PteLeaf1User},
       slot2 \in {PteLeaf2, PteLeaf2 \cup PTE_U, {}},
       lo \in {BitsOf(115), BitsOf(17665)},
       hi \in {BitsOf(12320), BitsOf(65520), {}},
       pc \in {BitsOf(8190), DRAM_BASE \cup BitsOf(8190), BitsOf(4096)} :
        MmuMachine(priv, {}, satp, menvcfg, pc,
                   DramWith(PteSelfPointer, slot1, slot2, lo, hi))

NextFetch == Fetch

SpecFetch == InitFetch /\ [][NextFetch]_vars

\* Entry i of the history is a fetch at a pc in the last two bytes of a page
\* whose first halfword was read and begins a 4-byte instruction.
CrossingFetch(i) ==
    /\ log[i].kind = "ifetch"
    /\ may_cross_page(log[i].pre.hart.pc)
    /\ LET t == translate(log[i].pre, log[i].pre.hart.pc, log[i].pre.hart.pc, "Fetch")
       IN /\ t.trap = NoTrap
          /\ Bus_read(t.m, t.paddr, 2).has_value
          /\ {0, 1} \subseteq Bus_read(t.m, t.paddr, 2).value

\* The halfword at the start of the page that follows the page of pc, read
\* where a translation of pc + 2 of its own places it.
UpperHalf(i) ==
    LET pc == log[i].pre.hart.pc
        t1 == translate(log[i].pre, pc, pc, "Fetch")
        t2 == translate(t1.m, pc, Add64(pc, BitsOf(2)), "Fetch")
    IN [mapped |-> t2.trap = NoTrap /\ Bus_read(t2.m, t2.paddr, 2).has_value,
        trap |-> t2.trap,
        lo |-> Bus_read(t1.m, t1.paddr, 2).value,
        hi |-> Bus_read(t2.m, t2.paddr, 2).value]

\* The page of pc + 2 is unmapped: the fetch walks the tables and the walk
\* for pc + 2 reads a PTE with V = 0.
SecondPageUnmapped(i) ==
    /\ log[i].pre.hart.priv # PRIV_M
    /\ NatOf(Shr(log[i].pre.hart.csrs.satp, 60)) = SATP_Sv39
    /\ \E pte \in WalkPtes(log[i].pre, Add64(log[i].pre.hart.pc, BitsOf(2)),
                           LEVELS - 1,
                           Shl(log[i].pre.hart.csrs.satp \cap (0..43), PGSHIFT)) :
          pte \cap PTE_V = {}

\* C15: a fetch at the last two bytes of a page whose halfword begins a
\* 4-byte instruction returns, when the next page is mapped, that halfword
\* with the first halfword of the next page above it, and when the next page
\* is unmapped it traps with InstructionPageFault, tval = pc + 2, epc = pc.
C15_CrossPageFetch ==
    \A i \in 1..Len(log) :
        CrossingFetch(i) =>
            /\ UpperHalf(i).mapped =>
                  /\ log[i].trap = NoTrap
                  /\ log[i].len = 4
                  /\ log[i].insn = UpperHalf(i).lo \cup Shl(UpperHalf(i).hi, 16)
            /\ SecondPageUnmapped(i) =>
                  /\ log[i].trap = Trap(log[i].pre.hart.pc, InstructionPageFault,
                                        Add64(log[i].pre.hart.pc, BitsOf(2)))
                  /\ log[i].post.hart.csrs.mepc = log[i].pre.hart.pc
                  /\ log[i].post.hart.csrs.mtval = Add64(log[i].pre.hart.pc, BitsOf(2))
                  /\ log[i].post.hart.csrs.mcause = InstructionPageFault

\* C15's case: in S-mode under Sv39 the fetch at 0x1ffe takes its low half
\* from the first data page and its high half, 0xfff0, from the second.
C15_Witness ==
    \E i \in 1..Len(log) :
        /\ CrossingFetch(i)
        /\ log[i].pre.hart.priv = PRIV_S
        /\ log[i].pre.hart.csrs.satp = SatpSv39
        /\ log[i].trap = NoTrap
        /\ log[i].insn = BitsOf(115) \cup Shl(BitsOf(65520), 16)

\* ------------------------------------------- misaligned accesses (C16)

\* One call of MMU::read<T> with sizeof(T) = size, as a load makes it.
Read(addr, size) ==
    /\ Len(log) < MaxOpsUnaligned
    /\ \E r \in {MMU_read(machine, hart.pc, addr, size)} :
          /\ hart' = r.m.hart
          /\ dram' = r.m.dram
          /\ clint' = r.m.clint
          /\ log' = Append(log, [pre |-> machine, post |-> r.m, kind |-> "read",
                                 addr |-> addr, size |-> size, value |-> r.value,
                                 trap |-> r.trap])
          /\ UNCHANGED <<mmu, engine, driver, worker, bus, plic>>

\* One call of MMU::write<T> with sizeof(T) = size, as a store makes it.
Write(addr, size, value) ==
    /\ Len(log) < MaxOpsUnaligned
    /\ \E w \in {MMU_write(machine, hart.pc, addr, size, value \cap (0..(8 * size - 1)))} :
          /\ hart' = w.m.hart
          /\ dram' = w.m.dram
          /\ clint' = w.m.clint
          /\ engine' = w.m.engine
          /\ log' = Append(log, [pre |-> machine, post |-> w.m, kind |-> "write",
                                 addr |-> addr, size |-> size,
                                 value |-> value \cap (0..(8 * size - 1)),
                                 trap |-> w.trap])
          /\ UNCHANGED <<mmu, driver, worker, bus, plic>>

\* Virtual page 1 is mapped to the first data page or to the table page
\* itself, virtual page 2 to the second data page or not at all.
InitUnaligned ==
    \E priv \in {PRIV_S, PRIV_M},
       satp \in {{}, SatpSv39},
       menvcfg \in {MENVCFG_ADUE},
       slot1 \in {PteLeaf1, PteLeaf1NoAD, PteLeafSelf \cup PTE_A \cup PTE_D},
       slot2 \in {PteLeaf2} :
        MmuMachine(priv, {}, satp, menvcfg, DRAM_BASE,
                   DramWith(PteSelfPointer, slot1, slot2, BitsOf(115), BitsOf(65520)))

\* The addresses accessed: 0x1001 in virtual page 1, 0x1fff at its end, and
\* 0x80001001 in the first data page.
UnalignedAddrs == {{12, 0}, BitsOf(8191), {31, 12, 0}}

\* The values stored: 0x8877665544332211 and 0x0000000000040004.
UnalignedValues == {{0, 4, 9, 13, 16, 17, 20, 21, 26, 30, 32, 34, 38, 40, 41, 45, 46,
                     48, 49, 50, 52, 53, 54, 59, 63},
                    {2, 18}}

NextUnaligned ==
    \E addr \in UnalignedAddrs, size \in {2, 4, 8} :
        \/ Read(addr, size)
        \/ \E value \in UnalignedValues : Write(addr, size, value)

SpecUnaligned == InitUnaligned /\ [][NextUnaligned]_vars

\* size single-byte MMU reads at addr + k, k = i .. size - 1, one after the
\* other, assembled little-endian into acc.
RECURSIVE ByteReads(_, _, _, _, _, _)
ByteReads(m, pc, addr, size, i, acc) ==
    IF i = size THEN [m |-> m, value |-> acc, trap |-> NoTrap]
    ELSE LET r == MMU_read(m, pc, Add64(addr, BitsOf(i)), 1)
         IN IF r.trap # NoTrap THEN r
            ELSE ByteReads(r.m, pc, addr, size, i + 1,
                           acc \cup Shl(r.value \cap (0..7), 8 * i))

\* size single-byte MMU writes of the little-endian bytes of value at
\* addr + k, k = i .. size - 1, one after the other.
RECURSIVE ByteWrites(_, _, _, _, _, _)
ByteWrites(m, pc, addr, size, value, i) ==
    IF i = size THEN [m |-> m, trap |-> NoTrap]
    ELSE LET w == MMU_write(m, pc, Add64(addr, BitsOf(i)), 1,
                            Shr(value, 8 * i) \cap (0..7))
         IN IF w.trap # NoTrap THEN w
            ELSE ByteWrites(w.m, pc, addr, size, value, i + 1)

\* Entry i of the history is an access wider than a byte at a misaligned
\* address every byte of which can be accessed by itself.
MisalignedAccessible(i) ==
    /\ log[i].kind \in {"read", "write"}
    /\ log[i].size > 1
    /\ log[i].addr \cap BitsOf(log[i].size - 1) # {}
    /\ \A k \in 0..(log[i].size - 1) :
          IF log[i].kind = "read"
          THEN MMU_read(log[i].pre, log[i].pre.hart.pc,
                        Add64(log[i].addr, BitsOf(k)), 1).trap = NoTrap
          ELSE MMU_write(log[i].pre, log[i].pre.hart.pc,
                         Add64(log[i].addr, BitsOf(k)), 1, {}).trap = NoTrap

\* The access of entry i agrees with the single-byte accesses: a read returns
\* their assembly, a write leaves the machine they leave.
AgreesWithBytes(i) ==
    IF log[i].kind = "read"
    THEN LET b == ByteReads(log[i].pre, log[i].pre.hart.pc, log[i].addr,
                            log[i].size, 0, {})
         IN /\ log[i].trap = NoTrap
            /\ b.trap = NoTrap
            /\ log[i].value = b.value
            /\ log[i].post = b.m
    ELSE LET b == ByteWrites(log[i].pre, log[i].pre.hart.pc, log[i].addr,
                             log[i].size, log[i].value, 0)
         IN /\ log[i].trap = NoTrap
            /\ b.trap = NoTrap
            /\ log[i].post = b.m

\* C16 as stated: every misaligned access wider than a byte whose bytes are
\* all accessible agrees with the single-byte accesses at the same addresses.
C16_MisalignedEqualsBytewise ==
    \A i \in 1..Len(log) : MisalignedAccessible(i) => AgreesWithBytes(i)

\* The addresses of the PTEs the walk for vaddr reads in machine m from level
\* i and table a on.
RECURSIVE WalkPteAddrs(_, _, _, _)
WalkPteAddrs(m, vaddr, i, a) ==
    IF i < 0 THEN {}
    ELSE LET r == Bus_read(m, pte_addr_of(vaddr, i, a), 8)
         IN IF ~r.has_value THEN {}
            ELSE IF /\ r.value \cap PTE_V # {}
                    /\ r.value \cap (PTE_R \cup PTE_W \cup PTE_X) = {}
            THEN {pte_addr_of(vaddr, i, a)}
                 \cup WalkPteAddrs(m, vaddr, i - 1,
                                   Shl(Shr(r.value, 10) \cap (0..43), PGSHIFT))
            ELSE {pte_addr_of(vaddr, i, a)}

\* The write of entry i stores into a PTE that the translation of one of its
\* own bytes reads.
WritesOwnPte(i) ==
    /\ log[i].kind = "write"
    /\ EffectivePriv(log[i].pre.hart, "Store") # PRIV_M
    /\ NatOf(Shr(log[i].pre.hart.csrs.satp, 60)) = SATP_Sv39
    /\ LET vaddrs == {Add64(log[i].addr, BitsOf(k)) : k \in 0..(log[i].size - 1)}
           root == Shl(log[i].pre.hart.csrs.satp \cap (0..43), PGSHIFT)
           ptes == UNION {WalkPteAddrs(log[i].pre, v, LEVELS - 1, root) : v \in vaddrs}
           written == {translate(log[i].pre, log[i].pre.hart.pc, v, "Store").paddr
                          : v \in vaddrs}
       IN \E p \in ptes, j \in 0..7 : Add64(p, BitsOf(j)) \in written

\* C16: a misaligned access wider than a byte whose bytes are all accessible,
\* and which does not store into a PTE that translates one of its own bytes,
\* agrees with the single-byte accesses at the same addresses: a read returns
\* their little-endian assembly and a write leaves memory as they leave it.
C16_MisalignedEqualsBytewiseOffTables ==
    \A i \in 1..Len(log) :
        (MisalignedAccessible(i) /\ ~WritesOwnPte(i)) => AgreesWithBytes(i)

\* C16's case: an 8-byte store at 0x1fff under Sv39 puts its first byte in
\* the first data page and the other seven in the second.
C16_Witness ==
    \E i \in 1..Len(log) :
        /\ MisalignedAccessible(i)
        /\ ~WritesOwnPte(i)
        /\ log[i].kind = "write"
        /\ log[i].size = 8
        /\ log[i].addr = BitsOf(8191)
        /\ log[i].pre.hart.priv = PRIV_S
        /\ log[i].pre.hart.csrs.satp = SatpSv39
        /\ log[i].trap = NoTrap
        /\ Dram_byte(log[i].post.dram, 8191) = 17
        /\ Dram_byte(log[i].post.dram, 8198) = 136

\* ---------------------------------------------- mstatus.SD and FS (C18)

\* CSRRW x0, mstatus, x1; CSRRW x0, sstatus, x1; CSRRS x0, mstatus, x2;
\* CSRRW x0, mstatus, x0; FSGNJ.S f0, f1, f0; ECALL; MRET; SRET.
MenuFp == {Insn("csrrw", 0, 1, 0, MSTATUS_ADDRESS, {}),
           Insn("csrrw", 0, 1, 0, SSTATUS_ADDRESS, {}),
           Insn("csrrs", 0, 2, 0, MSTATUS_ADDRESS, {}),
           Insn("csrrw", 0, 0, 0, MSTATUS_ADDRESS, {}),
           Insn("fsgnj_s", 0, 1, 0, 0, {}),
           Insn("ecall", 0, 0, 0, 0, {}), Insn("mret", 0, 0, 0, 0, {}),
           Insn("sret", 0, 0, 0, 0, {})}

\* The hart as constructed, in M or S, with the values software writes to
\* mstatus and sstatus in x1 (among them SD alone, SD with FS = Clean, and
\* all ones) and FS = Initial in x2.
InitFp ==
    /\ \E priv \in {PRIV_S, PRIV_M},
          v \in {MSTATUS_SD, MSTATUS_FS, {14, 63}, {13} \cup MSTATUS_SIE, 0..63} :
        hart = [HartReset EXCEPT !.priv = priv,
                                 !.gprs = [r \in 0..4 |-> IF r = 1 THEN v
                                                         ELSE IF r = 2 THEN {13} ELSE {}],
                                 !.csrs.mtvec = DRAM_BASE,
                                 !.csrs.stvec = DRAM_BASE]
    /\ mmu = MMUReset
    /\ dram = DramReset
    /\ clint = ClintReset
    /\ engine = EngineRunning
    /\ driver = [pc |-> "loop", rethrown |-> FALSE]
    /\ worker = [pc |-> "loop", i |-> 0]
    /\ log = <<>>
    /\ bus = BusEmulator
    /\ plic = PlicReset

NextFp == \E f \in MenuFp : CpuThreadLoop(f, MaxCyclesFp)

SpecFp == InitFp /\ [][NextFp]_vars

\* C18: in every reachable state mstatus.SD is 1 exactly when mstatus.FS is
\* Dirty (3), in the stored value and in what mstatus and sstatus read.
C18_SDIffFSDirty ==
    /\ (MSTATUS_SD \subseteq hart.csrs.mstatus) <=> (MSTATUS_FS \subseteq hart.csrs.mstatus)
    /\ (MSTATUS_SD \subseteq csr_read_unchecked(hart, MSTATUS_ADDRESS))
          <=> (MSTATUS_FS \subseteq csr_read_unchecked(hart, MSTATUS_ADDRESS))
    /\ (MSTATUS_SD \subseteq csr_read_unchecked(hart, SSTATUS_ADDRESS))
          <=> (MSTATUS_FS \subseteq csr_read_unchecked(hart, SSTATUS_ADDRESS))

\* C18's case: software set FS to Initial, and a floating-point instruction
\* then retired and left FS Dirty and SD set.
C18_Witness ==
    \E i \in 1..Len(log) :
        /\ log[i].name = "fsgnj_s"
        /\ log[i].kind = "retired"
        /\ log[i].pre.hart.csrs.mstatus \cap MSTATUS_FS = {13}
        /\ MSTATUS_FS \cup MSTATUS_SD \subseteq log[i].post.hart.csrs.mstatus
        /\ hart = log[i].post.hart

\* ------------------------------------------- device registration (C19)

\* One call of Bus::add_device, with the exception it throws caught by the
\* caller.
AddDevice(dev) ==
    /\ Len(log) < MaxAdds
    /\ \E r \in {Bus_add_device(bus, dev)} :
          /\ bus' = r.bus
          /\ log' = Append(log, [kind |-> "add_device", dev |-> dev, threw |-> r.threw,
                                 pre |-> bus, post |-> r.bus])
    /\ UNCHANGED <<hart, mmu, dram, clint, engine, driver, worker, plic>>

\* The devices offered: the Clint and the SiFiveTest, a device inside DRAM,
\* one that ends on the first byte of DRAM and one that ends just below it,
\* one that starts right after DRAM, one that starts on the last byte of the
\* Clint, one of size 0, and one of size 0 at address 0 (whose end_ wraps to
\* the top of the address space).
DeviceMenu ==
    {Device_new("Clint", BitsOf(Clint_DEFAULT_BASE), BitsOf(Clint_SIZE)),
     Device_new("SiFiveTest", BitsOf(SiFiveTest_DEFAULT_BASE), BitsOf(SiFiveTest_SIZE)),
     Device_new("InDram", DRAM_BASE \cup {8}, {8}),
     Device_new("IntoDram", 0..30, {1}),
     Device_new("BelowDram", 1..30, {1}),
     Device_new("AboveDram", Add64(DRAM_BASE, BitsOf(DRAM_SIZE)), {4}),
     Device_new("OnClintEnd", {25} \cup (0..15), {1}),
     Device_new("Empty", {20}, {}),
     Device_new("EmptyAtZero", {}, {})}

InitBus ==
    /\ hart = HartReset
    /\ mmu = MMUReset
    /\ dram = DramReset
    /\ clint = ClintReset
    /\ engine = EngineReset
    /\ driver = [pc |-> "idle", rethrown |-> FALSE]
    /\ worker = [pc |-> "none", i |-> 0]
    /\ log = <<>>
    /\ bus = BusReset
    /\ plic = PlicReset

NextBus == \E dev \in DeviceMenu \cup {NullDevice} : AddDevice(dev)

SpecBus == InitBus /\ [][NextBus]_vars

\* The ranges [s1, e1] and [s2, e2] have an address in common.
RangesMeet(s1, e1, s2, e2) ==
    /\ Geq64(e1, s1) /\ Geq64(e2, s2)
    /\ Geq64(e2, s1) /\ Geq64(e1, s2)

\* The last address of DRAM.
DramEnd == Sub64(Add64(DRAM_BASE, BitsOf(DRAM_SIZE)), {0})

\* C19: add_device throws and registers nothing when the device's range
\* meets the DRAM range or the range of a registered device, registers the
\* device otherwise, and the DRAM range and the registered ranges are
\* pairwise disjoint in every state.
C19_OverlapRejectedRangesDisjoint ==
    /\ \A i \in 1..Len(log) :
          IF log[i].dev = NullDevice
          THEN log[i].threw /\ log[i].post = log[i].pre
          ELSE
             LET d == log[i].dev
                 meets == \/ RangesMeet(d.start_, d.end_, DRAM_BASE, DramEnd)
                          \/ \E k \in 1..Len(log[i].pre.devices_) :
                                RangesMeet(d.start_, d.end_,
                                           log[i].pre.devices_[k].start_,
                                           log[i].pre.devices_[k].end_)
             IN /\ log[i].threw <=> meets
                /\ log[i].post.devices_ = IF meets THEN log[i].pre.devices_
                                          ELSE Append(log[i].pre.devices_, d)
    /\ \A k \in 1..Len(bus.devices_) :
          /\ ~RangesMeet(bus.devices_[k].start_, bus.devices_[k].end_, DRAM_BASE, DramEnd)
          /\ \A j \in 1..(k - 1) :
                ~RangesMeet(bus.devices_[k].start_, bus.devices_[k].end_,
                            bus.devices_[j].start_, bus.devices_[j].end_)

\* C19's case: with the Clint registered, the device that starts on the
\* Clint's last byte was rejected, and so was the one reaching into DRAM.
C19_Witness ==
    /\ Len(bus.devices_) = 1
    /\ bus.devices_[1].name = "Clint"
    /\ \E i \in 1..Len(log) : log[i].dev.name = "OnClintEnd"
                              /\ log[i].threw /\ Len(log[i].pre.devices_) = 1
    /\ \E i \in 1..Len(log) : log[i].dev.name = "IntoDram"
                              /\ log[i].threw

\* --------------------------------------------------- register file (C20)

\* One call of RegisterFile::write, as every executor with a destination
\* register makes it, followed by a read of the same index.
RegWrite(idx, value) ==
    /\ Len(log) < MaxRegWrites
    /\ \E h \in {R_write(hart, idx, value)} :
          /\ hart' = h
          /\ log' = Append(log, [kind |-> "reg_write", idx |-> idx, value |-> value,
                                 pre |-> hart, post |-> h,
                                 read |-> R_read(h, idx)])
    /\ UNCHANGED <<mmu, dram, clint, engine, driver, worker, bus, plic>>

InitRegs ==
    /\ hart = HartReset
    /\ mmu = MMUReset
    /\ dram = DramReset
    /\ clint = ClintReset
    /\ engine = EngineRunning
    /\ driver = [pc |-> "loop", rethrown |-> FALSE]
    /\ worker = [pc |-> "loop", i |-> 0]
    /\ log = <<>>
    /\ bus = BusEmulator
    /\ plic = PlicReset

NextRegs == \E idx \in 0..4, value \in {{}, {0}, 0..63} : RegWrite(idx, value)

SpecRegs == InitRegs /\ [][NextRegs]_vars

\* C20: after any sequence of writes a read of index 0 returns zero, a write
\* to index 0 changed nothing, and a write to another index is what the
\* next read of that index returns and changed no other register.
C20_ZeroRegisterHardwired ==
    /\ R_read(hart, 0) = {}
    /\ \A i \in 1..Len(log) :
          /\ R_read(log[i].post, 0) = {}
          /\ IF log[i].idx = 0
             THEN log[i].read = {} /\ log[i].post = log[i].pre
             ELSE /\ log[i].read = log[i].value
                  /\ \A r \in 0..4 : r # log[i].idx =>
                        R_read(log[i].post, r) = R_read(log[i].pre, r)

\* C20's case: all ones were written to index 0 after a write to x1, and x0
\* still reads zero while x1 reads what was written to it.
C20_Witness ==
    /\ Len(log) >= 2
    /\ log[1].idx = 1 /\ log[1].value = {0}
    /\ log[2].idx = 0 /\ log[2].value = 0..63
    /\ R_read(hart, 0) = {}
    /\ R_read(hart, 1) = {0}


\* ------------------------------- mip shared between threads (C21, SpecMip)

MaxMipOps == 2
MaxDeviceOps == 2

\* The loop body of MIP::write_unchecked: the value the compare-exchange
\* tries to store, from the value old_val it last saw and the operand v.
MIP_new_val(h, old_val, v) ==
    LET write_mask == (MIP_SSIP \cup MIP_SEIP) \cup
                      (IF (h.csrs.menvcfg \cap MENVCFG_mask) \cap MENVCFG_STCE = {}
                       THEN MIP_STIP ELSE {})
    IN (old_val \ write_mask) \cup (v \cap write_mask)

NoDeviceUpdate == [b \in MIP_read_mask |-> "none"]

\* exec_csrrs on mip in M-mode with R[rs1] = mask, rs1 # 0: read_checked loads
\* the atomic and masks it.
CsrrsMipRead(mask) ==
    /\ worker.pc = "idle"
    /\ Len(log) < MaxMipOps
    /\ worker' = [pc |-> "load", rs1 |-> mask, t |-> MIP_read(hart), old_val |-> {}]
    /\ driver' = [seen |-> NoDeviceUpdate, ops |-> 0]
    /\ UNCHANGED <<hart, mmu, dram, clint, engine, log, bus, plic>>

\* MIP::write_unchecked, the load of old_val before the loop.
MipWriteLoad ==
    /\ worker.pc = "load"
    /\ worker' = [worker EXCEPT !.pc = "cas", !.old_val = hart.csrs.mip]
    /\ UNCHANGED <<hart, mmu, dram, clint, engine, driver, log, bus, plic>>

\* One turn of the loop: compare_exchange_weak stores new_val when the atomic
\* still holds old_val, and otherwise reloads old_val and goes round again.
MipWriteCas ==
    /\ worker.pc = "cas"
    /\ IF hart.csrs.mip = worker.old_val
       THEN /\ hart' = [hart EXCEPT !.csrs.mip =
                           MIP_new_val(hart, worker.old_val, worker.t \cup worker.rs1)]
            /\ worker' = [worker EXCEPT !.pc = "retire"]
       ELSE /\ hart' = hart
            /\ worker' = [worker EXCEPT !.old_val = hart.csrs.mip]
    /\ UNCHANGED <<mmu, dram, clint, engine, driver, log, bus, plic>>

\* R.write(rd, t) ends the instruction.
CsrrsMipRetire ==
    /\ worker.pc = "retire"
    /\ hart' = R_write(hart, 1, worker.t)
    /\ log' = Append(log, [kind |-> "csrrs_mip", rs1 |-> worker.rs1, t |-> worker.t,
                           seen |-> driver.seen, mip |-> hart.csrs.mip])
    /\ worker' = [pc |-> "idle", rs1 |-> {}, t |-> {}, old_val |-> {}]
    /\ UNCHANGED <<mmu, dram, clint, engine, driver, bus, plic>>

\* Hart::set_interrupt_pending called on a device's thread (Plic::context_update
\* for MEIP and SEIP, Clint::handle_mtimecmp for MTIP): one fetch_or or fetch_and.
DeviceSetPending(mip_mask, pending) ==
    /\ driver.ops < MaxDeviceOps
    /\ hart' = set_interrupt_pending(hart, mip_mask, pending)
    /\ driver' = [seen |-> [b \in MIP_read_mask |->
                               IF b \in mip_mask
                               THEN (IF pending THEN "set" ELSE "clear")
                               ELSE driver.seen[b]],
                  ops |-> driver.ops + 1]
    /\ UNCHANGED <<mmu, dram, clint, engine, worker, log, bus, plic>>

InitMip ==
    /\ \E mip0 \in SUBSET (MIP_SEIP \cup MIP_MEIP) :
          hart = [HartReset EXCEPT !.csrs.mip = mip0]
    /\ mmu = MMUReset
    /\ dram = DramReset
    /\ clint = ClintReset
    /\ engine = EngineRunning
    /\ driver = [seen |-> NoDeviceUpdate, ops |-> 0]
    /\ worker = [pc |-> "idle", rs1 |-> {}, t |-> {}, old_val |-> {}]
    /\ log = <<>>
    /\ bus = BusEmulator
    /\ plic = PlicReset

NextMip ==
    \/ \E mask \in {MIP_SSIP, MIP_SEIP} : CsrrsMipRead(mask)
    \/ MipWriteLoad
    \/ MipWriteCas
    \/ CsrrsMipRetire
    \/ \E mip_mask \in {MIP_MEIP, MIP_SEIP, MIP_MTIP}, pending \in BOOLEAN :
          DeviceSetPending(mip_mask, pending)

SpecMip == InitMip /\ [][NextMip]_vars

\* C21: when a csrrs on mip retires, every mip bit the instruction did not name
\* in rs1 and that a device thread set or cleared while the instruction was in
\* flight holds what the device last gave it.
C21_DeviceUpdateNeverLost ==
    \A i \in 1..Len(log) :
        \A b \in MIP_read_mask \ log[i].rs1 :
            /\ log[i].seen[b] = "set" => b \in log[i].mip
            /\ log[i].seen[b] = "clear" => b \notin log[i].mip


\* ------------------------------------ store-conditional (C22, SpecSc)

MaxCyclesSc == 3

\* x1 and x2 hold two addresses, x4 the value stored, x3 receives results.
\* LR.W x3,(x1); SC.W x3,x4,(x1); SC.D x3,x4,(x1); SC.W x3,x4,(x2);
\* SC.D x3,x4,(x2).
MenuSc == {Insn("lr_w", 3, 1, 0, 0, {}), Insn("sc_w", 3, 1, 4, 0, {}),
           Insn("sc_d", 3, 1, 4, 0, {}), Insn("sc_w", 3, 2, 4, 0, {}),
           Insn("sc_d", 3, 2, 4, 0, {})}

\* The last word of the Dram: a 32-bit access there is in range and a 64-bit
\* access is not.
DramLastWord == Add64(DRAM_BASE, BitsOf(DRAM_SIZE - 4))

\* The hart as constructed (M-mode, satp Bare) with its registers loaded and
\* the reservation as LR left it or as constructed.
InitSc ==
    /\ \E a \in {Add64(DRAM_BASE, BitsOf(16)), DramLastWord},
          w \in {{0, 1, 33}, {2, 40}} :
        hart = [HartReset EXCEPT
                   !.gprs = [MemRegs(a, Add64(DRAM_BASE, BitsOf(24)), w)
                                EXCEPT ![3] = {5}]]
    /\ mmu = MMUReset
    /\ dram = DramReset
    /\ clint = ClintReset
    /\ engine = EngineRunning
    /\ driver = [pc |-> "loop", rethrown |-> FALSE]
    /\ worker = [pc |-> "loop", i |-> 0]
    /\ log = <<>>
    /\ bus = BusEmulator
    /\ plic = PlicReset

NextSc == \E f \in MenuSc : CpuThreadLoop(f, MaxCyclesSc)

SpecSc == InitSc /\ [][NextSc]_vars


\* Cycle i reached the executor of an SC.W or SC.D.
ScExecuted(i) == log[i].name \in {"sc_w", "sc_d"} /\ log[i].executed

ScSize(i) == IF log[i].name = "sc_w" THEN 4 ELSE 8
ScAddr(i) == R_read(log[i].pre.hart, log[i].insn.rs1)

\* The reservation held before cycle i is valid and for the SC's address.
ScReservationHit(i) ==
    /\ log[i].pre.mmu.reservation_valid
    /\ log[i].pre.mmu.reservation_address = ScAddr(i)

\* Cycle i stored: the Dram holds the low ScSize bytes of R[rs2] at the SC's
\* address, little endian, and every other byte is as before.
ScStored(i) ==
    LET offset == NatOf(Sub64(ScAddr(i), DRAM_BASE))
        value == R_read(log[i].pre.hart, log[i].insn.rs2)
    IN \A o \in 0..(DRAM_SIZE - 1) :
          Dram_byte(log[i].post.dram, o) =
             IF o >= offset /\ o < offset + ScSize(i)
             THEN NatOf(Shr(value, 8 * (o - offset)) \cap (0..7))
             ELSE Dram_byte(log[i].pre.dram, o)

\* What the claim asks of the SC of cycle i.
ScOutcome(i) ==
    /\ IF ScReservationHit(i)
       THEN ScStored(i) /\ R_read(log[i].post.hart, log[i].insn.rd) = {}
       ELSE /\ log[i].post.dram = log[i].pre.dram
            /\ R_read(log[i].post.hart, log[i].insn.rd) = {0}
    /\ ~log[i].post.mmu.reservation_valid

MaxCyclesSret == 2

\* SRET; CSRRS x0, mstatus, x1 and CSRRW x0, mstatus, x1 with x1 = MPRV.
MenuSret == {Insn("sret", 0, 0, 0, 0, {}),
             Insn("csrrs", 0, 1, 0, MSTATUS_ADDRESS, {}),
             Insn("csrrw", 0, 1, 0, MSTATUS_ADDRESS, {})}

\* The hart in M-mode or S-mode with sepc in the Dram and mstatus as M-mode
\* software and earlier traps left it.
InitSret ==
    /\ \E priv \in {PRIV_S, PRIV_M},
          bits \in SUBSET (MSTATUS_MPRV \cup MSTATUS_SPP \cup MSTATUS_SPIE \cup
                           MSTATUS_TSR) :
        hart = [HartReset EXCEPT
                   !.priv = priv,
                   !.csrs.mstatus = @ \cup bits,
                   !.csrs.sepc = DRAM_BASE \cup {4},
                   !.csrs.mtvec = DRAM_BASE,
                   !.gprs = [r \in 0..4 |-> IF r = 1 THEN MSTATUS_MPRV ELSE {}]]
    /\ mmu = MMUReset
    /\ dram = DramReset
    /\ clint = ClintReset
    /\ engine = EngineRunning
    /\ driver = [pc |-> "loop", rethrown |-> FALSE]
    /\ worker = [pc |-> "loop", i |-> 0]
    /\ log = <<>>
    /\ bus = BusEmulator
    /\ plic = PlicReset

NextSret == \E f \in MenuSret : CpuThreadLoop(f, MaxCyclesSret)

SpecSret == InitSret /\ [][NextSret]_vars

\* C23: after an SRET that retired, mstatus.MPRV is 0.
C23_SretClearsMPRV ==
    \A i \in 1..Len(log) :
        (log[i].name = "sret" /\ log[i].kind = "retired")
        => /\ log[i].post.hart.priv \in {PRIV_U, PRIV_S}
           /\ MSTATUS_read(log[i].post.hart) \cap MSTATUS_MPRV = {}


\* --------------------- interrupt CSRs and their supervisor views (SpecIrqCsr)

MaxCyclesIrqCsr == 2

InterruptCsrs == {MIDELEG_ADDRESS, MIE_ADDRESS, MIP_ADDRESS, SIE_ADDRESS, SIP_ADDRESS}

\* CSRRW x2, csr, x1 and CSRRS x2, csr, x1 on each of the five CSRs.
MenuIrqCsr == {Insn(name, 2, 1, 0, csr, {}) :
                  name \in {"csrrw", "csrrs"}, csr \in InterruptCsrs}

\* The hart in M-mode or S-mode, with delegation, enables and pending bits as
\* CSR writes and devices can have left them, and x1 the value to write.
InitIrqCsr ==
    /\ \E priv \in {PRIV_S, PRIV_M},
          mideleg \in {{}, MIP_SSIP, MIP_SSIP \cup MIP_STIP \cup MIP_SEIP},
          mie \in {{}, MIP_SSIP \cup MIP_MTIP, MIP_read_mask},
          mip \in {MIP_SSIP, MIP_MTIP \cup MIP_SEIP},
          x1 \in {{}, 0..63} :
        hart = [HartReset EXCEPT
                   !.priv = priv,
                   !.csrs.mideleg = mideleg,
                   !.csrs.mie = mie,
                   !.csrs.mip = mip,
                   !.csrs.mtvec = DRAM_BASE,
                   !.gprs = [r \in 0..4 |-> IF r = 1 THEN x1 ELSE {}]]
    /\ mmu = MMUReset
    /\ dram = DramReset
    /\ clint = ClintReset
    /\ engine = EngineRunning
    /\ driver = [pc |-> "loop", rethrown |-> FALSE]
    /\ worker = [pc |-> "loop", i |-> 0]
    /\ log = <<>>
    /\ bus = BusEmulator
    /\ plic = PlicReset

NextIrqCsr ==
    \/ \E f \in MenuIrqCsr : CpuThreadLoop(f, MaxCyclesIrqCsr)
    \/ \E best_id \in {0, 1} : PlicContextUpdate(FALSE, best_id)

SpecIrqCsr == InitIrqCsr /\ [][NextIrqCsr]_vars

\* C24: mideleg, mie and mip never read with a bit outside
\* {SSI, MSI, STI, MTI, SEI, MEI}, whatever was written to them.
C24_InterruptCsrsReadWithinSet ==
    \A a \in {MIDELEG_ADDRESS, MIE_ADDRESS, MIP_ADDRESS} :
        csr_read_unchecked(hart, a) \subseteq MIP_read_mask

\* Cycle i retired a CSR instruction that read the CSR at address a into rd.
ReadCsr(i, a) ==
    /\ log[i].kind = "retired"
    /\ log[i].insn.csr = a
    /\ log[i].name \in {"csrrw", "csrrs"}
    /\ log[i].insn.rd # 0

\* C25: a read of sip returns mip masked by mideleg and a read of sie returns
\* mie masked by mideleg.
C25_SupervisorViewsMaskedByMideleg ==
    \A i \in 1..Len(log) :
        /\ ReadCsr(i, SIP_ADDRESS) =>
              R_read(log[i].post.hart, log[i].insn.rd) =
                 csr_read_unchecked(log[i].pre.hart, MIP_ADDRESS) \cap
                 csr_read_unchecked(log[i].pre.hart, MIDELEG_ADDRESS)
        /\ ReadCsr(i, SIE_ADDRESS) =>
              R_read(log[i].post.hart, log[i].insn.rd) =
                 csr_read_unchecked(log[i].pre.hart, MIE_ADDRESS) \cap
                 csr_read_unchecked(log[i].pre.hart, MIDELEG_ADDRESS)

\* Cycle i retired a CSR instruction that wrote the CSR at address a.
WroteCsr(i, a) ==
    /\ log[i].kind = "retired"
    /\ log[i].insn.csr = a
    /\ log[i].name = "csrrw" \/ (log[i].name = "csrrs" /\ log[i].insn.rs1 # 0)

\* C26: a write to sie leaves mie.MSIE, mie.MTIE and mie.MEIE as they were,
\* and a write to sip leaves every mip bit not delegated in mideleg as it was.
C26_SupervisorWritesTouchOnlyDelegated ==
    \A i \in 1..Len(log) :
        /\ WroteCsr(i, SIE_ADDRESS) =>
              log[i].post.hart.csrs.mie \cap (MIP_MSIP \cup MIP_MTIP \cup MIP_MEIP) =
              log[i].pre.hart.csrs.mie \cap (MIP_MSIP \cup MIP_MTIP \cup MIP_MEIP)
        /\ WroteCsr(i, SIP_ADDRESS) =>
              log[i].post.hart.csrs.mip \ log[i].pre.hart.csrs.mideleg =
              log[i].pre.hart.csrs.mip \ log[i].pre.hart.csrs.mideleg


\* ----------------------------- writes to the counters (C27, SpecCounters)

MaxCyclesCounters == 3

\* CSRRW x0, mcycle, x1; CSRRW x0, minstret, x1; CSRRS x2, mcycle, x0;
\* CSRRS x2, minstret, x0.
MenuCounters == {Insn("csrrw", 0, 1, 0, MCYCLE_ADDRESS, {}),
                 Insn("csrrw", 0, 1, 0, MINSTRET_ADDRESS, {}),
                 Insn("csrrs", 2, 0, 0, MCYCLE_ADDRESS, {}),
                 Insn("csrrs", 2, 0, 0, MINSTRET_ADDRESS, {})}

\* The hart in M-mode with the counters at some count and x1 the value v.
InitCounters ==
    /\ \E n \in {0, 5}, v \in {{}, {3}, {0, 4}} :
        hart = [HartReset EXCEPT
                   !.csrs.mcycle = n,
                   !.csrs.minstret = n,
                   !.csrs.mtvec = DRAM_BASE,
                   !.gprs = [r \in 0..4 |-> IF r = 1 THEN v ELSE {}]]
    /\ mmu = MMUReset
    /\ dram = DramReset
    /\ clint = ClintReset
    /\ engine = EngineRunning
    /\ driver = [pc |-> "loop", rethrown |-> FALSE]
    /\ worker = [pc |-> "loop", i |-> 0]
    /\ log = <<>>
    /\ bus = BusEmulator
    /\ plic = PlicReset

NextCounters == \E f \in MenuCounters : CpuThreadLoop(f, MaxCyclesCounters)

SpecCounters == InitCounters /\ [][NextCounters]_vars

\* Cycle i retired a CSRRW of v = R[x1] to the counter at address a.
WroteCounter(i, a) ==
    /\ log[i].kind = "retired" /\ log[i].name = "csrrw" /\ log[i].insn.csr = a

\* The engine's first advance of the counter at a after the write of cycle i:
\* minstret advances at the end of the writing cycle itself, mcycle at the
\* start of the next one.  The value the counter holds right after it.
AfterNextAdvance(i, a) ==
    IF a = MINSTRET_ADDRESS
    THEN csr_read_unchecked(log[i].post.hart, a)
    ELSE csr_read_unchecked(log[i + 1].post.hart, a)

\* C27: a value v written to mcycle or minstret by a CSR instruction is still
\* what the counter reads after the engine's next advance of it.
C27_WriteSuppressesNextIncrement ==
    \A i \in 1..Len(log) : \A a \in {MCYCLE_ADDRESS, MINSTRET_ADDRESS} :
        (/\ WroteCounter(i, a)
         /\ a = MCYCLE_ADDRESS => (i < Len(log) /\ log[i + 1].insn.csr # a))
        => AfterNextAdvance(i, a) = R_read(log[i].pre.hart, 1)


\* ------------------------------- the current privilege (C28-C30, SpecPriv)

MaxCyclesPriv == 2

\* CSRRW x0, mstatus, x1; MRET; SRET; EBREAK; WFI; SW x2, 0(x3).
MenuPriv == {Insn("csrrw", 0, 1, 0, MSTATUS_ADDRESS, {}),
             Insn("mret", 0, 0, 0, 0, {}), Insn("sret", 0, 0, 0, 0, {}),
             Insn("ebreak", 0, 0, 0, 0, {}), Insn("wfi", 0, 0, 0, 0, {}),
             Insn("sw", 0, 3, 2, 0, {})}

\* The hart in a state M-mode software has configured and left with xRET:
\* a privilege, interrupt enables, delegation, trap vectors and return
\* addresses in the Dram, at most SSIP pending.  x1 holds the mstatus value
\* to write (MPP = 2, or MPP = 1 with SPP = 1), x3 an address in the Dram.
InitPriv ==
    /\ \E priv \in {PRIV_U, PRIV_S, PRIV_M},
          ie \in {MSTATUS_SIE \cup MSTATUS_MIE},
          mideleg \in {{}, MIP_SSIP \cup MIP_STIP \cup MIP_SEIP},
          medeleg \in {{}, {2, 3}},
          mip \in {{}, MIP_SSIP},
          x1 \in {{12}, {8, 11}} :
        hart = [HartReset EXCEPT
                   !.priv = priv,
                   !.csrs.mstatus = @ \cup ie,
                   !.csrs.mideleg = mideleg,
                   !.csrs.medeleg = medeleg,
                   !.csrs.mie = MIP_read_mask,
                   !.csrs.mip = mip,
                   !.csrs.mtvec = DRAM_BASE,
                   !.csrs.stvec = DRAM_BASE \cup {3},
                   !.csrs.mepc = DRAM_BASE \cup {4},
                   !.csrs.sepc = DRAM_BASE \cup {5},
                   !.gprs = [r \in 0..4 |-> CASE r = 1 -> x1
                                              [] r = 3 -> DRAM_BASE \cup {6}
                                              [] OTHER -> {}]]
    /\ mmu = MMUReset
    /\ dram = DramReset
    /\ clint = ClintReset
    /\ engine = EngineRunning
    /\ driver = [pc |-> "loop", rethrown |-> FALSE]
    /\ worker = [pc |-> "loop", i |-> 0]
    /\ log = <<>>
    /\ bus = BusEmulator
    /\ plic = PlicReset

NextPriv ==
    \/ \E f \in MenuPriv : CpuThreadLoop(f, MaxCyclesPriv)
    \/ \E best_id \in {0, 1} : PlicContextUpdate(TRUE, best_id)

SpecPriv == InitPriv /\ [][NextPriv]_vars

\* C28: the current privilege is always U, S or M.
C28_PrivilegeIsUSM == hart.priv \in {PRIV_U, PRIV_S, PRIV_M}

\* Cycle i dispatched a trap.
TookTrap(i) == log[i].kind \in {"interrupt", "exception"}

\* C29: a step changes the current privilege only if it is a cycle of the
\* worker that dispatched a trap or retired MRET or SRET.
C29_PrivilegeChangesOnlyByTrapOrXret ==
    [][hart'.priv # hart.priv =>
          /\ Len(log') = Len(log) + 1
          /\ \/ TookTrap(Len(log))'
             \/ log'[Len(log')].name \in {"mret", "sret"}]_vars

\* C29's case: a CSRRW that changed mstatus.MPP retired and left the
\* privilege as it was.
C29_Witness ==
    \E i \in 1..Len(log) :
        /\ log[i].name = "csrrw" /\ log[i].kind = "retired"
        /\ log[i].post.hart.csrs.mstatus \cap MSTATUS_MPP #
           log[i].pre.hart.csrs.mstatus \cap MSTATUS_MPP
        /\ log[i].post.hart.priv = log[i].pre.hart.priv

\* C30: a trap never lowers the privilege; from M-mode every trap is handled
\* in M-mode, and no interrupt goes to S-mode from M-mode.
C30_TrapNeverLowersPrivilege ==
    \A i \in 1..Len(log) :
        TookTrap(i) =>
            /\ log[i].post.hart.priv >= log[i].pre.hart.priv
            /\ log[i].pre.hart.priv = PRIV_M => log[i].post.hart.priv = PRIV_M

\* C30's case: a trap whose cause is delegated was raised in M-mode and
\* handled in M-mode.
C30_Witness ==
    \E i \in 1..Len(log) :
        /\ TookTrap(i) /\ log[i].pre.hart.priv = PRIV_M
        /\ NatOf(log[i].trap.cause \ {63}) \in
              (IF 63 \in log[i].trap.cause THEN log[i].pre.hart.csrs.mideleg
               ELSE log[i].pre.hart.csrs.medeleg)
        /\ log[i].post.hart.priv = PRIV_M


\* ------------------- CSR instructions on a read-only CSR (C31, C35, SpecCsrRo)

MaxCyclesCsrRo == 2

\* CSRRWI x2, cycle, 5; CSRRW x2, cycle, x1; CSRRS x2, cycle, x1;
\* CSRRS/CSRRC x2, cycle, x0; CSRRSI/CSRRCI x2, cycle, 0;
\* CSRRSI x2, mcounteren, 1; EBREAK.
MenuCsrRo == {Insn("csrrwi", 2, 5, 0, CYCLE_ADDRESS, {}),
              Insn("csrrw", 2, 1, 0, CYCLE_ADDRESS, {}),
              Insn("csrrs", 2, 1, 0, CYCLE_ADDRESS, {}),
              Insn("csrrs", 2, 0, 0, CYCLE_ADDRESS, {}),
              Insn("csrrc", 2, 0, 0, CYCLE_ADDRESS, {}),
              Insn("csrrsi", 2, 0, 0, CYCLE_ADDRESS, {}),
              Insn("csrrci", 2, 0, 0, CYCLE_ADDRESS, {}),
              Insn("csrrsi", 2, 1, 0, MCOUNTEREN_ADDRESS, {}),
              Insn("ebreak", 0, 0, 0, 0, {})}

\* The hart at some privilege with the cycle counter opened to the lower
\* privileges or not, mcycle at some count, and x1, x2 holding values that
\* no read of cycle returns.
InitCsrRo ==
    /\ \E priv \in {PRIV_U, PRIV_S, PRIV_M},
          mcounteren \in {{}, {0}}, scounteren \in {{}, {0}},
          n \in {0, 5} :
        hart = [HartReset EXCEPT
                   !.priv = priv,
                   !.csrs.mcounteren = mcounteren,
                   !.csrs.scounteren = scounteren,
                   !.csrs.mcycle = n,
                   !.csrs.mtvec = DRAM_BASE,
                   !.gprs = [r \in 0..4 |-> CASE r = 1 -> {4}
                                              [] r = 2 -> {6}
                                              [] OTHER -> {}]]
    /\ mmu = MMUReset
    /\ dram = DramReset
    /\ clint = ClintReset
    /\ engine = EngineRunning
    /\ driver = [pc |-> "loop", rethrown |-> FALSE]
    /\ worker = [pc |-> "loop", i |-> 0]
    /\ log = <<>>
    /\ bus = BusEmulator
    /\ plic = PlicReset

NextCsrRo == \E f \in MenuCsrRo : CpuThreadLoop(f, MaxCyclesCsrRo)

SpecCsrRo == InitCsrRo /\ [][NextCsrRo]_vars

\* C31: a cycle whose instruction ended in a trap leaves every general-purpose
\* and every floating-point register as it was before the instruction began.
C31_TrappedInstructionLeavesRegisters ==
    \A i \in 1..Len(log) :
        (log[i].kind = "exception" /\ log[i].executed)
        => /\ log[i].post.hart.gprs = log[i].pre.hart.gprs
           /\ log[i].post.hart.fprs = log[i].pre.hart.fprs

\* Cycle i executed a CSRRS or CSRRC with rs1 = x0, or a CSRRSI or CSRRCI with
\* zimm = 0, on the read-only cycle.
ReadOnlyForm(i) ==
    /\ log[i].executed
    /\ log[i].name \in {"csrrs", "csrrc", "csrrsi", "csrrci"}
    /\ log[i].insn.rs1 = 0
    /\ log[i].insn.csr = CYCLE_ADDRESS

\* The hart as execute_once hands it to the executor of cycle i.
AtExecute(i) == MCYCLE_advance(log[i].pre.hart)

\* C35: CSRRS/CSRRC with rs1 = x0 and CSRRSI/CSRRCI with zimm = 0 on cycle do
\* the checked read and nothing more: the instruction traps exactly when the
\* read is not permitted, and otherwise retires with rd the value of the
\* counter and every CSR as the executor found it.
C35_ReadOnlyFormOnlyReads ==
    \A i \in 1..Len(log) :
        ReadOnlyForm(i)
        => IF check_permissions(AtExecute(i), CYCLE_ADDRESS)
           THEN /\ log[i].kind = "retired"
                /\ R_read(log[i].post.hart, log[i].insn.rd) =
                       BitsOf(AtExecute(i).csrs.mcycle)
                /\ log[i].post.hart.csrs = MINSTRET_advance(AtExecute(i)).csrs
           ELSE /\ log[i].kind = "exception"
                /\ log[i].trap.cause = IllegalInstruction

C35_Witness ==
    \E i \in 1..Len(log) :
        /\ ReadOnlyForm(i)
        /\ log[i].kind = "retired"
        /\ log[i].pre.hart.priv = PRIV_U
        /\ log[i].name = "csrrci"
        /\ R_read(log[i].post.hart, 2) = BitsOf(6)


\* --------------------------------------- branch and jump targets (C32, SpecJump)

MaxCyclesJump == 2

\* BEQ x1, x1, +2/+4 (taken); BEQ x0, x1, +2 (not taken); JAL x3, +2/+4;
\* JALR x3, 1/2/3/4(x1).
MenuJump == {Insn("beq", 0, 1, 1, 0, BitsOf(2)), Insn("beq", 0, 1, 1, 0, BitsOf(4)),
             Insn("beq", 0, 0, 1, 0, BitsOf(2)),
             Insn("jal", 3, 0, 0, 0, BitsOf(2)), Insn("jal", 3, 0, 0, 0, BitsOf(4)),
             Insn("jalr", 3, 1, 0, 0, BitsOf(1)), Insn("jalr", 3, 1, 0, 0, BitsOf(2)),
             Insn("jalr", 3, 1, 0, 0, BitsOf(3)), Insn("jalr", 3, 1, 0, 0, BitsOf(4))}

\* The hart in M-mode at the reset pc with x1 an address in the Dram.
InitJump ==
    /\ \E x1 \in {DRAM_BASE \cup {4}, DRAM_BASE \cup {4, 0}, DRAM_BASE \cup {4, 1}} :
        hart = [HartReset EXCEPT
                   !.csrs.mtvec = DRAM_BASE \cup {6},
                   !.gprs = [r \in 0..4 |-> IF r = 1 THEN x1 ELSE {}]]
    /\ mmu = MMUReset
    /\ dram = DramReset
    /\ clint = ClintReset
    /\ engine = EngineRunning
    /\ driver = [pc |-> "loop", rethrown |-> FALSE]
    /\ worker = [pc |-> "loop", i |-> 0]
    /\ log = <<>>
    /\ bus = BusEmulator
    /\ plic = PlicReset

NextJump == \E f \in MenuJump : CpuThreadLoop(f, MaxCyclesJump)

SpecJump == InitJump /\ [][NextJump]_vars

\* Cycle i executed a branch whose condition held, a JAL or a JALR.
TakenJump(i) ==
    /\ log[i].executed
    /\ \/ log[i].name \in {"jal", "jalr"}
       \/ /\ log[i].name = "beq"
          /\ R_read(log[i].pre.hart, log[i].insn.rs1) =
             R_read(log[i].pre.hart, log[i].insn.rs2)

\* The target of the jump of cycle i: pc + imm, or R[rs1] + imm with bit 0
\* cleared for JALR.
JumpTarget(i) ==
    IF log[i].name = "jalr"
    THEN Add64(R_read(log[i].pre.hart, log[i].insn.rs1), log[i].insn.imm) \ {0}
    ELSE Add64(log[i].pre.hart.pc, log[i].insn.imm)

\* C32: with the compressed extension implemented, a taken branch, JAL or
\* JALR raises Instruction Address Misaligned only for a target with bit 0
\* set; a target with bit 1 set and bit 0 clear does not trap.
C32_Bit1TargetDoesNotTrap ==
    \A i \in 1..Len(log) :
        (/\ TakenJump(i)
         /\ log[i].kind = "exception"
         /\ log[i].trap.cause = InstructionAddressMisaligned)
        => 0 \in JumpTarget(i)


\* --------------------------- the accrued exception flags (C33, SpecFflags)

MaxCyclesFflags == 2

\* CSRRW x0, fflags, x1; CSRRW x0, fcsr, x1; CSRRSI x0, fflags, 1;
\* CSRRS x2, fcsr, x0; FMIN.S f0, f0, f1.
MenuFflags == {Insn("csrrw", 0, 1, 0, FFLAGS_ADDRESS, {}),
               Insn("csrrw", 0, 1, 0, FCSR_ADDRESS, {}),
               Insn("csrrsi", 0, 1, 0, FFLAGS_ADDRESS, {}),
               Insn("csrrs", 2, 0, 0, FCSR_ADDRESS, {}),
               Insn("fmin_s", 0, 0, 1, 0, {})}

\* 1.0, -0.0, a signaling and a quiet NaN as singles.
F32_ONE == 23..29
F32_NEG_ZERO == {31}
F32_SNAN == (23..30) \cup {0}
F32_QNAN == 22..30

\* The hart in M-mode with mstatus.FS at each of its four values, x1 the
\* value software writes (flags, a rounding mode, or both), f0 and f1 singles.
InitFflags ==
    /\ \E fs \in SUBSET MSTATUS_FS,
          x1 \in {{}, {0}, {4}, {5}, {1, 6}},
          f0 \in {F32_ONE, F32_NEG_ZERO, F32_SNAN, F32_QNAN},
          f1 \in {F32_ONE, {}} :
        hart = [HartReset EXCEPT
                   !.csrs.mstatus = (@ \ (MSTATUS_FS \cup MSTATUS_SD)) \cup fs \cup
                                    (IF fs = MSTATUS_FS THEN MSTATUS_SD ELSE {}),
                   !.csrs.mtvec = DRAM_BASE,
                   !.gprs = [r \in 0..4 |-> IF r = 1 THEN x1 ELSE {}],
                   !.fprs = [r \in 0..1 |-> FPR_write_32(IF r = 0 THEN f0 ELSE f1)]]
    /\ mmu = MMUReset
    /\ dram = DramReset
    /\ clint = ClintReset
    /\ engine = EngineRunning
    /\ driver = [pc |-> "loop", rethrown |-> FALSE]
    /\ worker = [pc |-> "loop", i |-> 0]
    /\ log = <<>>
    /\ bus = BusEmulator
    /\ plic = PlicReset

NextFflags == \E f \in MenuFflags : CpuThreadLoop(f, MaxCyclesFflags)

SpecFflags == InitFflags /\ [][NextFflags]_vars

\* C33: a cycle that sets an exception flag of fflags that was clear, by a
\* floating-point instruction or by a CSR write to fflags or fcsr, ends with
\* mstatus.FS = Dirty and mstatus.SD = 1.
C33_FlagUpdateLeavesFSDirty ==
    \A i \in 1..Len(log) :
        (csr_read_unchecked(log[i].post.hart, FFLAGS_ADDRESS)
            \ csr_read_unchecked(log[i].pre.hart, FFLAGS_ADDRESS) # {})
        => MSTATUS_FS \cup MSTATUS_SD
              \subseteq csr_read_unchecked(log[i].post.hart, MSTATUS_ADDRESS)


\* ------------------------------- retired instructions (C34, SpecInstret)

MaxCyclesInstret == 2

\* CSRRW x0, minstret, x1; CSRRS x2, minstret, x0; CSRRW x0, mcycle, x1;
\* CSRRW x0, mcountinhibit, x1; CSRRWI x0, cycle, 0; EBREAK; ECALL; WFI.
MenuInstret == {Insn("csrrw", 0, 1, 0, MINSTRET_ADDRESS, {}),
                Insn("csrrs", 2, 0, 0, MINSTRET_ADDRESS, {}),
                Insn("csrrw", 0, 1, 0, MCYCLE_ADDRESS, {}),
                Insn("csrrw", 0, 1, 0, MCOUNTINHIBIT_ADDRESS, {}),
                Insn("csrrwi", 0, 0, 0, CYCLE_ADDRESS, {}),
                Insn("ebreak", 0, 0, 0, 0, {}), Insn("ecall", 0, 0, 0, 0, {}),
                Insn("wfi", 0, 0, 0, 0, {})}

\* The hart in M or U with minstret at some count, instret counting
\* inhibited or not, the machine software interrupt pending or not, and x1
\* the value software writes.
InitInstret ==
    /\ \E priv \in {PRIV_U, PRIV_M},
          mcountinhibit \in {{}, {2}},
          mip \in {{}, MIP_MSIP},
          n \in {0, 5},
          x1 \in {{}, {2}, {0, 1}} :
        hart = [HartReset EXCEPT
                   !.priv = priv,
                   !.csrs.mstatus = @ \cup MSTATUS_MIE,
                   !.csrs.mie = MIP_MSIP,
                   !.csrs.mip = mip,
                   !.csrs.mcountinhibit = mcountinhibit,
                   !.csrs.minstret = n,
                   !.csrs.mtvec = DRAM_BASE,
                   !.gprs = [r \in 0..4 |-> IF r = 1 THEN x1 ELSE {}]]
    /\ mmu = MMUReset
    /\ dram = DramReset
    /\ clint = ClintReset
    /\ engine = EngineRunning
    /\ driver = [pc |-> "loop", rethrown |-> FALSE]
    /\ worker = [pc |-> "loop", i |-> 0]
    /\ log = <<>>
    /\ bus = BusEmulator
    /\ plic = PlicReset

NextInstret == \E f \in MenuInstret : CpuThreadLoop(f, MaxCyclesInstret)

SpecInstret == InitInstret /\ [][NextInstret]_vars

\* mcountinhibit.IR is clear when cycle i ends, which is when the engine
\* advances minstret.
InstretCounting(i) == 2 \notin log[i].post.hart.csrs.mcountinhibit

\* Cycle i executed a CSR instruction on minstret that writes it.
WritesMinstret(i) ==
    /\ log[i].executed
    /\ log[i].insn.csr = MINSTRET_ADDRESS
    /\ \/ log[i].name \in {"csrrw", "csrrwi"}
       \/ log[i].name \in {"csrrs", "csrrc", "csrrsi", "csrrci"} /\ log[i].insn.rs1 # 0

\* C34: with mcountinhibit.IR clear and no CSR write to minstret in the cycle,
\* minstret advances by exactly one in a cycle that completes without a trap
\* and stays as it was in a cycle that ends in a trap.
C34_MinstretCountsRetired ==
    \A i \in 1..Len(log) :
        (InstretCounting(i) /\ ~WritesMinstret(i))
        => log[i].post.hart.csrs.minstret =
              IF log[i].kind = "retired"
              THEN log[i].pre.hart.csrs.minstret + 1
              ELSE log[i].pre.hart.csrs.minstret

\* C34's cases: a cycle that took a trap, then a cycle that retired, both
\* counted as the claim says.
C34_Witness ==
    /\ Len(log) = 2
    /\ InstretCounting(1) /\ InstretCounting(2)
    /\ log[1].kind \in {"exception", "interrupt"}
    /\ log[2].kind = "retired" /\ log[2].name = "csrrw"
    /\ log[2].insn.csr = MCYCLE_ADDRESS
    /\ hart.csrs.minstret = log[1].pre.hart.csrs.minstret + 1


\* ----------------------------- stores a device rejects (C36, SpecDevStore)

MaxCyclesDevStore == 2

\* The guest's registers in SpecDevStore: x1 is an address inside the CLINT
\* that is none of its registers, x3 the address of msip, x4 an address no
\* device and no DRAM owns.
DevStoreRegs(v) ==
    [r \in 0..4 |->
        CASE r = 0 -> {}
          [] r = 1 -> BitsOf(Clint_DEFAULT_BASE + 8)
          [] r = 2 -> v
          [] r = 3 -> BitsOf(Clint_DEFAULT_BASE + MSIP_OFFSET)
          [] r = 4 -> {28, 29}]

\* SW and SD x2, 0(x1); SW and SD x2, 0(x3); SW and SD x2, 0(x4); WFI.
MenuDevStore == {Insn("sw", 0, 1, 2, 0, {}), Insn("sd", 0, 1, 2, 0, {}),
                 Insn("sw", 0, 3, 2, 0, {}), Insn("sd", 0, 3, 2, 0, {}),
                 Insn("sw", 0, 4, 2, 0, {}), Insn("sd", 0, 4, 2, 0, {}),
                 Insn("wfi", 0, 0, 0, 0, {})}

InitDevStore ==
    /\ \E v \in {{}, {0}, {1, 32}} :
        hart = [HartReset EXCEPT !.gprs = DevStoreRegs(v),
                                 !.csrs.mtvec = DRAM_BASE]
    /\ mmu = MMUReset
    /\ dram = DramReset
    /\ clint = ClintReset
    /\ engine = EngineRunning
    /\ driver = [pc |-> "loop", rethrown |-> FALSE]
    /\ worker = [pc |-> "loop", i |-> 0]
    /\ log = <<>>
    /\ bus = BusEmulator
    /\ plic = PlicReset

NextDevStore == \E f \in MenuDevStore : CpuThreadLoop(f, MaxCyclesDevStore)

SpecDevStore == InitDevStore /\ [][NextDevStore]_vars

\* The address and the size of the store of cycle i.
StoreAddr(i) == Add64(R_read(log[i].pre.hart, log[i].insn.rs1), log[i].insn.imm)

StoreSize(i) == IF log[i].name = "sd" THEN 8 ELSE 4

\* Cycle i executed a store the bus routes to the CLINT, whose write handler
\* returns false for it.
RejectedByDevice(i) ==
    /\ log[i].executed
    /\ log[i].name \in {"sw", "sd"}
    /\ Device_contains(Clint_DEFAULT_BASE, Clint_SIZE, StoreAddr(i), StoreSize(i))
    /\ ~Clint_write_internal(log[i].pre,
                             NatOf(Sub64(StoreAddr(i), BitsOf(Clint_DEFAULT_BASE))),
                             StoreSize(i),
                             R_read(log[i].pre.hart, log[i].insn.rs2)).res

\* C36: a store routed to a device whose write handler rejects it ends in a
\* Store/AMO Access Fault.
C36_RejectedStoreFaults ==
    \A i \in 1..Len(log) :
        RejectedByDevice(i)
        => /\ log[i].kind = "exception"
           /\ log[i].trap.cause = StoreAMOAccessFault


\* ------------------------ misaligned stores that fault (C37, SpecStoreFault)

\* Leaves for virtual page 2: read-only, and writable onto a page past the
\* end of the Dram.
PteLeaf2ReadOnly == {0, 1, 3, 6, 7, 11, 29}
PteLeaf2OffDram == {0, 1, 2, 3, 6, 7, 12, 29}

\* Virtual page 1 is mapped to the first data page; virtual page 2 is mapped
\* to the second data page, writable or read-only, to a page no owner
\* covers, or not at all.
InitStoreFault ==
    \E priv \in {PRIV_S, PRIV_M},
       satp \in {{}, SatpSv39},
       slot1 \in {PteLeaf1, PteLeaf1NoAD},
       slot2 \in {PteLeaf2, PteLeaf2ReadOnly, PteLeaf2OffDram, {}} :
        MmuMachine(priv, {}, satp, MENVCFG_ADUE, DRAM_BASE,
                   DramWith(PteSelfPointer, slot1, slot2, BitsOf(115), BitsOf(65520)))

\* The addresses stored to: 0x1fff at the end of virtual page 1, 0x1ffd,
\* and the last byte of the Dram.
StoreFaultAddrs == {BitsOf(8191), BitsOf(8189), Add64(DRAM_BASE, BitsOf(DRAM_SIZE - 1))}

NextStoreFault ==
    \E addr \in StoreFaultAddrs, size \in {2, 4, 8}, value \in UnalignedValues :
        Write(addr, size, value)

SpecStoreFault == InitStoreFault /\ [][NextStoreFault]_vars

\* Entry i is a misaligned store wider than a byte that raised a fault.
FaultedMisalignedStore(i) ==
    /\ log[i].kind = "write"
    /\ log[i].size > 1
    /\ log[i].addr \cap BitsOf(log[i].size - 1) # {}
    /\ log[i].trap # NoTrap
    /\ log[i].trap.cause \in {StoreAMOPageFault, StoreAMOAccessFault}

\* The byte of the Dram that byte k of the store of entry i is for, where the
\* translation of its address succeeds and lands in the Dram: it holds what
\* it held before.
TargetByteKept(i, k) ==
    LET t == translate(log[i].pre, log[i].pre.hart.pc,
                       Add64(log[i].addr, BitsOf(k)), "Store")
    IN (t.trap = NoTrap /\ Dram_is_valid_addr(t.paddr, 1))
       => Dram_read(log[i].post.dram, t.paddr, 1) = Dram_read(log[i].pre.dram, t.paddr, 1)

\* C37: after a misaligned store that raised a page fault or an access fault
\* none of the bytes the store is for has been written: each target byte and
\* every byte of the data pages holds what it held before, and so does the
\* CLINT.
C37_FaultedStoreWroteNothing ==
    \A i \in 1..Len(log) :
        FaultedMisalignedStore(i)
        => /\ \A k \in 0..(log[i].size - 1) : TargetByteKept(i, k)
           /\ \A o \in (DOMAIN log[i].pre.dram) \cup (DOMAIN log[i].post.dram) :
                 o >= 4096 => Dram_byte(log[i].post.dram, o) = Dram_byte(log[i].pre.dram, o)
           /\ log[i].post.clint = log[i].pre.clint

\* C37's case: under Sv39 an 8-byte store at 0x1fff whose first byte is
\* writable and whose second lies in an unmapped page raises a page fault.
C37_Witness ==
    \E i \in 1..Len(log) :
        /\ FaultedMisalignedStore(i)
        /\ log[i].size = 8
        /\ log[i].addr = BitsOf(8191)
        /\ log[i].pre.hart.priv = PRIV_S
        /\ log[i].pre.hart.csrs.satp = SatpSv39
        /\ log[i].trap.cause = StoreAMOPageFault
        /\ translate(log[i].pre, log[i].pre.hart.pc, log[i].addr, "Store").trap = NoTrap
        /\ 0 \in log[i].value


\* ------------------- execute_until_halt always comes back (C38, SpecStartup)

\* cpu_cond_.wait woken by a notify_all only: the worker's first notify_all
\* follows its setting of cpu_thread_running_, and request_shutdown_from_host
\* notifies nobody.
ExecuteUntilHaltWakeNotified ==
    /\ worker.pc \notin {"none", "start"}
    /\ ExecuteUntilHaltWake

\* Everything as constructed, and the host has asked for the shutdown already
\* or has not.
InitStartup ==
    /\ hart = [HartReset EXCEPT
                 !.gprs = MemRegs(BitsOf(SiFiveTest_DEFAULT_BASE),
                                  BitsOf(Status_PASS), {})]
    /\ mmu = MMUReset
    /\ dram = DramReset
    /\ clint = ClintReset
    /\ \E host \in BOOLEAN : engine = [EngineReset EXCEPT !.shutdown_from_host_ = host]
    /\ driver = [pc |-> "idle", rethrown |-> FALSE]
    /\ worker = [pc |-> "none", i |-> 0]
    /\ log = <<>>
    /\ bus = BusEmulator
    /\ plic = PlicReset

NextStartup ==
    \/ ExecuteUntilHaltStart
    \/ ExecuteUntilHaltWakeNotified
    \/ \E now \in {BitsOf(t) : t \in 0..MaxTime} : ExecuteUntilHaltLoop(now)
    \/ CpuThreadBegin
    \/ \E f \in MenuEngine : CpuThreadLoop(f, MaxCyclesEngine)
    \/ CpuThreadEnd
    \/ CpuThreadReturn
    \/ RequestShutdownFromHost

\* The scheduler runs every thread that can run: the worker thread starts and,
\* once out of its loop, finishes; the driver is woken by the notify_all and
\* its loop yields and comes back.  The guest program is under no obligation:
\* the worker may stay in its loop for ever.
SpecStartup ==
    /\ InitStartup /\ [][NextStartup]_vars
    /\ WF_vars(CpuThreadBegin)
    /\ WF_vars(CpuThreadEnd)
    /\ WF_vars(CpuThreadReturn)
    /\ WF_vars(ExecuteUntilHaltWakeNotified)
    /\ WF_vars(\E now \in {BitsOf(t) : t \in 0..MaxTime} : ExecuteUntilHaltLoop(now))

\* C38: the driver's condition wait always ends, and once the worker has
\* cleared cpu_thread_running_ after its loop execute_until_halt returns.
C38_ExecuteUntilHaltNeverBlocks ==
    /\ (driver.pc = "wait") ~> (driver.pc # "wait")
    /\ (driver.pc \in {"wait", "loop"} /\ worker.pc \in {"notify", "done"})
          ~> (driver.pc = "returned")

\* C38's case: the driver waited (the host never asked for a shutdown), the
\* worker ran a cycle, caught an exception or saw the guest's shutdown, and
\* cleared the flag; execute_until_halt has returned.
C38_Witness ==
    /\ driver.pc = "returned"
    /\ worker.pc \in {"notify", "done"}
    /\ ~engine.shutdown_from_host_
    /\ Len(log) >= 1


\* --------------------------------- the PLIC (C39, C40, SpecPlic)

\* The number of claim reads and completion writes recorded.
MaxPlicEvents == 2

\* The pair of the Plic and the hart the Plic's functions work on.
PlicPair == [plic |-> plic, hart |-> hart]

\* A device raises or lowers the level line of source id.
PlicSetInterruptLevel(id, lvl) ==
    /\ \E s \in {set_interrupt_level(PlicPair, id, lvl)} :
          /\ plic' = s.plic
          /\ hart' = s.hart
    /\ UNCHANGED <<mmu, dram, clint, engine, driver, worker, log, bus>>

\* The guest's stores to the priority, enable and threshold registers.
PlicPriorityWrite(id, val) ==
    /\ \E s \in {priority_write(PlicPair, id, val)} :
          /\ plic' = s.plic
          /\ hart' = s.hart
    /\ UNCHANGED <<mmu, dram, clint, engine, driver, worker, log, bus>>

PlicEnableWrite(c, val) ==
    /\ \E s \in {context_enable_write(PlicPair, c, val)} :
          /\ plic' = s.plic
          /\ hart' = s.hart
    /\ UNCHANGED <<mmu, dram, clint, engine, driver, worker, log, bus>>

PlicThresholdWrite(c, val) ==
    /\ \E s \in {context_write_threshold(PlicPair, c, val)} :
          /\ plic' = s.plic
          /\ hart' = s.hart
    /\ UNCHANGED <<mmu, dram, clint, engine, driver, worker, log, bus>>

\* The guest's load of context c's claim register; a claim that returns a
\* source is recorded.
PlicClaim(c) ==
    \E r \in {context_claim(PlicPair, c)} :
        /\ r.id # 0 => Len(log) < MaxPlicEvents
        /\ plic' = r.s.plic
        /\ hart' = r.s.hart
        /\ log' = IF r.id # 0
                  THEN Append(log, [op |-> "claim", ctx |-> c, id |-> r.id])
                  ELSE log
        /\ UNCHANGED <<mmu, dram, clint, engine, driver, worker, bus>>

\* The guest's store of id to context c's claim/complete register.
PlicComplete(c, id) ==
    /\ Len(log) < MaxPlicEvents
    /\ \E s \in {context_write_claim(PlicPair, c, id)} :
          /\ plic' = s.plic
          /\ hart' = s.hart
    /\ log' = Append(log, [op |-> "complete", ctx |-> c, id |-> id])
    /\ UNCHANGED <<mmu, dram, clint, engine, driver, worker, bus>>

\* Everything as constructed.
InitPlic ==
    /\ hart = HartReset
    /\ mmu = MMUReset
    /\ dram = DramReset
    /\ clint = ClintReset
    /\ engine = EngineRunning
    /\ driver = [pc |-> "loop", rethrown |-> FALSE]
    /\ worker = [pc |-> "loop", i |-> 0]
    /\ log = <<>>
    /\ bus = BusEmulator
    /\ plic = PlicReset

NextPlic ==
    \/ \E id \in 1..PlicNdev, lvl \in BOOLEAN : PlicSetInterruptLevel(id, lvl)
    \/ \E id \in 1..PlicNdev : PlicPriorityWrite(id, id)
    \/ \E c \in 1..2, val \in {{}, 1..PlicNdev} : PlicEnableWrite(c, val)
    \/ \E c \in 1..2, val \in {0, 1} : PlicThresholdWrite(c, val)
    \/ \E c \in 1..2 : PlicClaim(c)
    \/ \E c \in 1..2, id \in 1..PlicNdev : PlicComplete(c, id)

SpecPlic == InitPlic /\ [][NextPlic]_vars

\* C39: a source returned by a claim read of a context is returned by no
\* later claim read of that context before the context has written the
\* source's id to its claim/complete register.
C39_ClaimedNotReturnedAgain ==
    \A i \in 1..Len(log) : \A j \in (i + 1)..Len(log) :
        (/\ log[i].op = "claim" /\ log[j].op = "claim"
         /\ log[i].ctx = log[j].ctx /\ log[i].id = log[j].id)
        => \E k \in (i + 1)..(j - 1) :
              /\ log[k].op = "complete"
              /\ log[k].ctx = log[i].ctx /\ log[k].id = log[i].id

\* Context c has an enabled source whose level is asserted, that is not
\* claimed and whose priority exceeds the context's threshold.
HasDeliverableSource(c) ==
    \E id \in 1..PlicNdev :
        /\ id \in plic.contexts_[c].enable
        /\ id \in plic.level_
        /\ id \notin plic.contexts_[c].claimed
        /\ plic.priority_[id] > plic.contexts_[c].priority_threshold

\* MEIP follows the M context and SEIP the S context.
PendingBitsMatch ==
    /\ (MIP_MEIP \subseteq hart.csrs.mip) <=> HasDeliverableSource(1)
    /\ (MIP_SEIP \subseteq hart.csrs.mip) <=> HasDeliverableSource(2)

\* C40: after every Plic operation other than a priority write (a level
\* change, an enable write, a threshold write, a claim, a completion), for
\* each context the hart's external-interrupt pending bit, MEIP for the M
\* context and SEIP for the S context, is set exactly when the context has a
\* deliverable source.
C40_PendingBitIffDeliverable ==
    [][plic.priority_' = plic.priority_ => PendingBitsMatch']_vars

====
